---- MODULE Spec2Model ----
(***************************************************************************)
(* Model of the Kafka -> SOAP bridge (services/consumer) and of the KYC    *)
(* SOAP service it calls (services/providers/kyc).                         *)
(*                                                                         *)
(* Strings built with fmt.Sprintf / fmt.Errorf are modelled as sequences   *)
(* of string tokens (the literal pieces of the format and the values put   *)
(* in), so that "the message contains X" can be asked of them.             *)
(* Risk (float64) is modelled as an integer count of 1e-7 units: the       *)
(* float64 nearest to that decimal.  NaN is the one non-finite value kept, *)
(* as a sentinel outside the range of the risks.                           *)
(***************************************************************************)
EXTENDS Integers, Sequences, FiniteSets, TLC

VARIABLES
    users,            \* InMemoryRepo.users   : ClientID -> UserData
    actions,          \* InMemoryRepo.actions : ClientID -> Action
    pc,               \* position of the dispatch loop of main()
    msg,              \* msg.Value of the kafka message read in this iteration
    kafkaMsg,         \* the decoded models.KafkaMessage (mutated by CREATE/UPDATE)
    resp,             \* the HTTP exchange made by doSOAPRequest in this iteration
    processedEntity,  \* result of the soapClient call
    err,              \* error of the soapClient call (<<>> is nil)
    out,              \* the kafka.Message handed to producer.Produce (<<>>: none)
    produceErr,       \* TRUE when producer.Produce returned an error
    backendCalls,     \* HTTP requests issued to the backend in this iteration
    produceCalls,     \* calls of producer.Produce in this iteration
    url,              \* soapServiceURL (SOAP_SERVICE_URL or the default)
    clock,            \* seconds since the running readiness wait began
    kafkaReady,       \* waitForKafkaConnection returned nil
    soapReady,        \* waitForSoapService returned nil
    probeStatus,      \* resp.StatusCode of the probe just answered (0: none)
    blocked,          \* seconds the call the process is blocked in has lasted
    pollErr,          \* the error of the last consumer.ReadMessage ("" is nil)
    lastFailures,     \* what the iteration before this poll logged as failed
    lastWrite,        \* per client id, the data of the latest write the KYC
                      \* service reported done and no later delete undid
    direct,           \* SOAP exchanges of clients other than the bridge: last, under way
                      \* with the SOAP endpoint of the KYC service
    mu,               \* InMemoryRepo.mu : who holds the sync.RWMutex
    worker,           \* per request goroutine, the repository call it runs
    created,          \* per client id, the Creates of the goroutines of worker
                      \* that stored their record since the id was last absent
                      \* (the records of the data folder are not counted)
    order,            \* when recorded: the number of messages consumed and the
                      \* numbers of those whose result the writer took, in
                      \* the order it took them
    wire,             \* the request the SOAP client waits on: how far the KYC
                      \* service is with it, and the answer it wrote
    late              \* the writes the SOAP client gave up waiting for, which
                      \* the KYC service still holds

startupVars == <<url, clock, kafkaReady, soapReady, probeStatus>>

pollVars == <<blocked, pollErr, lastFailures>>

kycVars == <<direct, mu, worker, created, wire, late>>

sideVars == <<kycVars, order>>

vars == <<users, actions, pc, msg, kafkaMsg, resp, processedEntity, err, out,
          produceErr, backendCalls, produceCalls, startupVars, pollVars,
          lastWrite, kycVars, order>>

(***************************************************************************)
(* Values                                                                  *)
(***************************************************************************)

\* float64 NaN, as a backend may send it in <Risk>NaN</Risk>
NaN == 0 - 2000000001

\* a JSON key that is absent from the inbound object
Missing == "<missing>"

ClientIds == {"a", "b"}
CorrelationIds == {"c1"}
KnownTypes == {"READ", "CREATE", "UPDATE", "DELETE"}
Types == KnownTypes \cup {"PATCH"}

\* risks a requester sends: 0.0000014 does not fit the six decimals of %f
InboundRisks == {14}

\* the risk 0.15 of the record of the data folder, in the same unit
LoadedRisk == 1500000

\* Topic of the kafka.ReaderConfig of consumer.NewConsumer
KafkaReceiveTopic == "Income"

KafkaResponseTopic == "Output"

\* soapServiceURL: the default of main(), and an address http.NewRequest rejects
DefaultSoapURL == "http://soap-service:8081/soap"
InvalidURL == "://invalid-url"
Urls == {DefaultSoapURL, InvalidURL}

\* the timeout given to both readiness waits, in seconds
StartupTimeout == 60

\* the timeout of the context handed to kafka.DialContext, in seconds
DialTimeout == 5

\* http.Client.Timeout of the SOAP client, in seconds
ClientTimeout == 10

\* how far the model follows the clock of a readiness wait
MaxClock == 66

\* how far the model follows a call that does not return
MaxBlocked == 12

\* a context: context.Background() has no deadline
Background == [deadline |-> FALSE, timeout |-> 0]

\* context.WithTimeout(context.Background(), t)
WithTimeout(t) == [deadline |-> TRUE, timeout |-> t]

\* a call made under ctx that has lasted `waited` seconds may last longer
MayStillBlock(ctx, waited) == ~ctx.deadline \/ waited < ctx.timeout

\* the errors consumer.ReadMessage hands to the loop: the reader was
\* closed; a broker round trip failed
ConsumerErrors == {"EOF", "i/o timeout"}

Min(a, b) == IF a < b THEN a ELSE b

ActionTimeout == "Timeout"
ActionInternalError == "InternalError"
ActionNotFound == "NotFound"
Actions == {ActionTimeout, ActionInternalError, ActionNotFound}

StatusOK == 200
StatusCreated == 201
StatusBadRequest == 400
StatusNotFound == 404
StatusMethodNotAllowed == 405
StatusRequestTimeout == 408
StatusConflict == 409
StatusInternalServerError == 500
StatusServiceUnavailable == 503

\* strconv for the %d verb, on the status codes in use
Itoa(n) ==
    CASE n = 200 -> "200" [] n = 201 -> "201" [] n = 400 -> "400"
      [] n = 404 -> "404" [] n = 405 -> "405" [] n = 408 -> "408"
      [] n = 409 -> "409" [] n = 500 -> "500" [] n = 503 -> "503"
      [] OTHER -> "?"

\* models.UserData built in Go or decoded from JSON: XMLName is the zero
\* xml.Name
UserData(clientId, risk, status, message) ==
    [xmlName |-> "", clientId |-> clientId, risk |-> risk, status |-> status,
     message |-> message]

\* a models.UserData that xml.Unmarshal filled: XMLName holds the name of
\* the element read, UserData of the namespace http://example.com/kyc
Named(userData) == [userData EXCEPT !.xmlName = "UserData"]

\* models.UserData{} : the zero value
ZeroUserData == UserData("", 0, "", <<>>)

\* text in a token sequence
Contains(m, tok) == \E i \in 1..Len(m) : m[i] = tok

(***************************************************************************)
(* KYC service: repository (services/providers/kyc/repository.go)          *)
(***************************************************************************)

\* fmt.Errorf("user with ClientID '%s' not found", clientID)
ErrNotFound(clientID) == <<"user with ClientID '", clientID, "' not found">>

\* fmt.Errorf("user with ClientID '%s' already exists", clientID)
ErrAlreadyExists(clientID) == <<"user with ClientID '", clientID, "' already exists">>

\* r.users[id] = userData
Put(u, id, userData) ==
    [k \in (DOMAIN u) \cup {id} |-> IF k = id THEN userData ELSE u[k]]

\* delete(r.users, id)
Remove(u, id) == [k \in (DOMAIN u) \ {id} |-> u[k]]

\* InMemoryRepo.Create
Create(u, userData) ==
    IF userData.clientId \in DOMAIN u
    THEN [users |-> u, err |-> ErrAlreadyExists(userData.clientId)]
    ELSE [users |-> Put(u, userData.clientId, userData), err |-> <<>>]

\* InMemoryRepo.Read
Read(u, clientID) ==
    IF clientID \in DOMAIN u
    THEN [user |-> u[clientID], err |-> <<>>]
    ELSE [user |-> ZeroUserData, err |-> ErrNotFound(clientID)]

\* an Update without the existence check: it stores what it is given
Update_Upsert(u, userData) ==
    [users |-> [k \in (DOMAIN u) \cup {userData.clientId} |->
                  IF k = userData.clientId THEN userData ELSE u[k]],
     err |-> <<>>]

\* InMemoryRepo.Update
Update(u, userData) ==
    IF userData.clientId \notin DOMAIN u
    THEN [users |-> u, err |-> ErrNotFound(userData.clientId)]
    ELSE [users |-> Put(u, userData.clientId, userData), err |-> <<>>]

\* a Delete that returns nil without removing the record
Delete_KeepsRecord(u, clientID) ==
    IF clientID \notin DOMAIN u
    THEN [users |-> u, err |-> ErrNotFound(clientID)]
    ELSE [users |-> u, err |-> <<>>]

\* InMemoryRepo.Delete
Delete(u, clientID) ==
    IF clientID \notin DOMAIN u
    THEN [users |-> u, err |-> ErrNotFound(clientID)]
    ELSE [users |-> Remove(u, clientID), err |-> <<>>]

\* a GetAction that returns an override set for any client
GetAction_AnyClient(acts, clientID) ==
    IF DOMAIN acts # {}
    THEN [action |-> acts[CHOOSE k \in DOMAIN acts : TRUE], exists |-> TRUE]
    ELSE [action |-> "", exists |-> FALSE]

\* InMemoryRepo.GetAction : (action, exists)
GetAction(acts, clientID) ==
    IF clientID \in DOMAIN acts
    THEN [action |-> acts[clientID], exists |-> TRUE]
    ELSE [action |-> "", exists |-> FALSE]

(***************************************************************************)
(* KYC service: SOAP handler (services/providers/kyc/main.go)              *)
(***************************************************************************)

\* an HTTP response body.  wf: it parses as XML; root: the element inside
\* soapenv:Body; userData: <<>> when the element is absent
Body(wf, root, status, message, userData) ==
    [wf |-> wf, root |-> root, status |-> status, message |-> message,
     userData |-> userData]

\* the text/plain body written by http.Error
TextBody(text) == Body(FALSE, "text", "", <<text>>, <<>>)

\* kycModels.KYCResponseEnvelope
KYCResponseEnvelope(status, message, userData) ==
    Body(TRUE, "KYCResponse", status, message, userData)

\* kycModels.DeleteKYCResponseEnvelope
DeleteKYCResponseEnvelope(status, message) ==
    Body(TRUE, "DeleteKYCResponse", status, message, <<>>)

HandlerResult(code, body, u) == [code |-> code, body |-> body, users |-> u]

\* the namespace the XMLName tags of the four request structs name
KycNamespace == "http://example.com/kyc"

\* the error of xml.Unmarshal of the body element into the request struct of
\* its operation when the element, which the switch matched by its local
\* name, is not in KycNamespace
ErrNamespace(req) ==
    <<"expected element <", req.root, "> in name space ", KycNamespace, " but have ",
      IF req.space = "" THEN "no name space" ELSE req.space>>

\* case "KYCQuery" of soapHandler
HandleKYCQuery(u, acts, req) ==
    LET a == GetAction(acts, req.clientId)
        r == Read(u, req.clientId)
    IN  IF req.space # KycNamespace
        THEN HandlerResult(StatusBadRequest,
                 KYCResponseEnvelope("Error",
                     <<"Invalid KYCQuery request: ">> \o ErrNamespace(req), <<>>), u)
        ELSE IF a.exists /\ a.action = ActionTimeout
        THEN HandlerResult(StatusRequestTimeout, TextBody("Timeout"), u)
        ELSE IF a.exists /\ a.action = ActionInternalError
        THEN HandlerResult(StatusInternalServerError,
                           TextBody("Internal Server Error (simulated)"), u)
        ELSE IF a.exists /\ a.action = ActionNotFound
        THEN HandlerResult(StatusNotFound,
                 KYCResponseEnvelope("Error",
                     <<"User with ClientID '", req.clientId, "' not found (simulated)">>,
                     <<>>), u)
        ELSE IF r.err # <<>>
        THEN HandlerResult(StatusNotFound,
                           KYCResponseEnvelope("Error", r.err, <<>>), u)
        ELSE HandlerResult(StatusOK,
                 KYCResponseEnvelope("Success", <<"User data retrieved">>, <<r.user>>), u)

\* a <Risk> element whose text strconv.ParseFloat rejects
BadFloat == 0 - 2000000002

\* a request body that is no XML document
NotXML == "<not-xml>"

\* case "CreateKYC" of soapHandler
HandleCreateKYC(u, req) ==
    LET userData == Named(req.userData)
        r == Create(u, userData)
    IN  IF req.space # KycNamespace
        THEN HandlerResult(StatusBadRequest,
                 KYCResponseEnvelope("Error",
                     <<"Invalid CreateKYC request: ">> \o ErrNamespace(req), <<>>), u)
        ELSE IF req.userData.risk = BadFloat
        THEN HandlerResult(StatusBadRequest,
                 KYCResponseEnvelope("Error", <<"Invalid CreateKYC request: ">>, <<>>), u)
        ELSE IF r.err # <<>>
        THEN HandlerResult(StatusConflict,
                           KYCResponseEnvelope("Error", r.err, <<>>), r.users)
        ELSE HandlerResult(StatusOK,
                 KYCResponseEnvelope("Success", <<"User created">>, <<userData>>),
                 r.users)

\* case "UpdateKYC" of soapHandler
HandleUpdateKYC(u, req) ==
    LET userData == Named(req.userData)
        r == Update(u, userData)
    IN  IF req.space # KycNamespace
        THEN HandlerResult(StatusBadRequest,
                 KYCResponseEnvelope("Error",
                     <<"Invalid UpdateKYC request: ">> \o ErrNamespace(req), <<>>), u)
        ELSE IF req.userData.risk = BadFloat
        THEN HandlerResult(StatusBadRequest,
                 KYCResponseEnvelope("Error", <<"Invalid UpdateKYC request: ">>, <<>>), u)
        ELSE IF r.err # <<>>
        THEN HandlerResult(StatusNotFound,
                           KYCResponseEnvelope("Error", r.err, <<>>), r.users)
        ELSE HandlerResult(StatusOK,
                 KYCResponseEnvelope("Success", <<"User updated">>, <<userData>>),
                 r.users)

\* a DeleteKYC case that leaves statusCode at 200 when the client is absent
HandleDeleteKYC_NotFoundAsOK(u, req) ==
    LET r == Delete(u, req.clientId)
    IN  IF req.space # KycNamespace
        THEN HandlerResult(StatusBadRequest,
                 DeleteKYCResponseEnvelope("Error",
                     <<"Invalid DeleteKYC request: ">> \o ErrNamespace(req)), u)
        ELSE IF r.err # <<>>
        THEN HandlerResult(StatusOK,
                           DeleteKYCResponseEnvelope("Error", r.err), r.users)
        ELSE HandlerResult(StatusOK,
                 DeleteKYCResponseEnvelope("Success", <<"User deleted">>), r.users)

\* case "DeleteKYC" of soapHandler
HandleDeleteKYC(u, req) ==
    LET r == Delete(u, req.clientId)
    IN  IF req.space # KycNamespace
        THEN HandlerResult(StatusBadRequest,
                 DeleteKYCResponseEnvelope("Error",
                     <<"Invalid DeleteKYC request: ">> \o ErrNamespace(req)), u)
        ELSE IF r.err # <<>>
        THEN HandlerResult(StatusNotFound,
                           DeleteKYCResponseEnvelope("Error", r.err), r.users)
        ELSE HandlerResult(StatusOK,
                 DeleteKYCResponseEnvelope("Success", <<"User deleted">>), r.users)

\* a soapHandler that dispatches on the body whatever the method
soapHandler_NoMethodCheck(u, acts, method, req) ==
    CASE req.root = NotXML -> HandlerResult(StatusBadRequest,
                                  TextBody("Failed to parse SOAP request"), u)
      [] req.root = "KYCQuery"  -> HandleKYCQuery(u, acts, req)
      [] req.root = "CreateKYC" -> HandleCreateKYC(u, req)
      [] req.root = "UpdateKYC" -> HandleUpdateKYC(u, req)
      [] req.root = "DeleteKYC" -> HandleDeleteKYC(u, req)
      [] OTHER -> HandlerResult(StatusBadRequest,
                      KYCResponseEnvelope("Error",
                          <<"Unknown SOAP operation: ", req.root>>, <<>>), u)

\* soapHandler; req.root is the local name of the body element of the SOAP
\* envelope, "" for an empty body, NotXML when the request body does not
\* parse; req.space is the namespace of that element
soapHandler(u, acts, method, req) ==
    IF method # "POST"
    THEN HandlerResult(StatusMethodNotAllowed,
                       TextBody("SOAP requests must use POST method"), u)
    ELSE CASE req.root = NotXML -> HandlerResult(StatusBadRequest,
                                       TextBody("Failed to parse SOAP request"), u)
           [] req.root = "KYCQuery"  -> HandleKYCQuery(u, acts, req)
           [] req.root = "CreateKYC" -> HandleCreateKYC(u, req)
           [] req.root = "UpdateKYC" -> HandleUpdateKYC(u, req)
           [] req.root = "DeleteKYC" -> HandleDeleteKYC(u, req)
           [] OTHER -> HandlerResult(StatusBadRequest,
                           KYCResponseEnvelope("Error",
                               <<"Unknown SOAP operation: ", req.root>>, <<>>), u)

(***************************************************************************)
(* Bridge: SOAP client (services/consumer/clients/soapclient)              *)
(***************************************************************************)

\* the decimals with a 5 in the seventh place whose nearest float64 lies
\* above them, and those whose nearest float64 lies below them (the ones
\* under 0.0001, and 0.1234565)
HalvesAbove ==
    {15, 25, 45, 75, 95, 115, 125, 145, 155, 165, 205, 215, 225, 265, 275,
     285, 335, 355, 385, 405, 425, 435, 455, 475, 505, 525, 545, 555, 575,
     595, 605, 615, 625, 655, 665, 675, 705, 715, 725, 755, 765, 805, 815,
     855, 865, 905, 915, 945, 955, 965, 995}

HalvesBelow ==
    {5, 35, 55, 65, 85, 105, 135, 175, 185, 195, 235, 245, 255, 295, 305,
     315, 325, 345, 365, 375, 395, 415, 445, 465, 485, 495, 515, 535, 565,
     585, 635, 645, 685, 695, 735, 745, 775, 785, 795, 825, 835, 845, 875,
     885, 895, 925, 935, 975, 985, 1234565}

\* the %f verb followed by the server's ParseFloat: the six decimals nearest
\* to the float64 are kept, whatever its sign; NaN is written and read back
\* as NaN
FormatRisk(risk) ==
    IF risk = NaN THEN NaN
    ELSE LET a == IF risk < 0 THEN 0 - risk ELSE risk
             q == a \div 10
             r == CASE a % 10 < 5 -> q
                    [] a % 10 > 5 -> q + 1
                    [] a \in HalvesAbove -> q + 1
                    [] a \in HalvesBelow -> q
         IN  IF risk < 0 THEN 0 - (10 * r) ELSE 10 * r

\* the request documents built from the four request templates, whose
\* operation element declares xmlns="http://example.com/kyc"
SoapRequest(root, clientId, userData) ==
    [root |-> root, clientId |-> clientId, userData |-> userData,
     space |-> KycNamespace]

\* the same document with its operation element in no namespace (the
\* declaration left out, or made on the Envelope only, which the innerxml
\* of the Body does not carry)
Unqualified(req) == [req EXCEPT !.space = ""]

KYCQueryRequest(clientID) == SoapRequest("KYCQuery", clientID, ZeroUserData)

CreateKYCRequest(userData) ==
    SoapRequest("CreateKYC", "",
                UserData(userData.clientId, FormatRisk(userData.risk), "", <<>>))

UpdateKYCRequest(userData) ==
    SoapRequest("UpdateKYC", "",
                UserData(userData.clientId, FormatRisk(userData.risk), "", <<>>))

DeleteKYCRequest(clientID) == SoapRequest("DeleteKYC", clientID, ZeroUserData)

\* what one doSOAPRequest ran into.  transport "none": http.NewRequest failed
\* and nothing was sent; "refused": no connection; "timeout":
\* http.Client.Timeout (10 s) elapsed before the headers; "ok": headers and
\* body were read; "reset": the headers were read and reading the body
\* failed; "bodytimeout": the headers were read and http.Client.Timeout
\* elapsed while reading the body
Exchange(transport, code, body) ==
    [transport |-> transport, code |-> code, body |-> body]

NoExchange == Exchange("none", 0, TextBody(""))

\* sc.client.Do failed
CallErrors == {"refused", "timeout"}

\* io.ReadAll(resp.Body) failed
BodyErrors == {"reset", "bodytimeout"}

\* the transports that end with http.Client.Timeout
TimeoutErrors == {"timeout", "bodytimeout"}

\* the cause wrapped with %w by the fmt.Errorf of doSOAPRequest
TransportCause(transport) ==
    CASE transport = "timeout" ->
            "context deadline exceeded (Client.Timeout exceeded while awaiting headers)"
      [] transport = "bodytimeout" ->
            "context deadline exceeded (Client.Timeout or context cancellation while reading body)"
      [] transport = "reset" -> "unexpected EOF"
      [] transport = "refused" -> "connect: connection refused"
      [] OTHER -> "parse: missing protocol scheme"

\* doSOAPRequest that takes only 4xx and 5xx for errors
doSOAPRequest_ClientServerErrors(r) ==
    CASE r.transport = "none" ->
            [body |-> TextBody(""),
             err |-> <<"failed to create SOAP request: ", TransportCause(r.transport)>>]
      [] r.transport \in CallErrors ->
            [body |-> TextBody(""),
             err |-> <<"failed to call SOAP service: ", TransportCause(r.transport)>>]
      [] r.code >= 400 ->
            [body |-> TextBody(""),
             err |-> <<"SOAP service returned non-OK status: ", Itoa(r.code)>>]
      [] r.transport \in BodyErrors ->
            [body |-> TextBody(""),
             err |-> <<"failed to read SOAP response body: ",
                       TransportCause(r.transport)>>]
      [] OTHER -> [body |-> r.body, err |-> <<>>]

\* SOAPClient.doSOAPRequest : (body, err).  The error of the io.ReadAll of a
\* response that is not 200 is dropped, the status is reported
doSOAPRequest(r) ==
    CASE r.transport = "none" ->
            [body |-> TextBody(""),
             err |-> <<"failed to create SOAP request: ", TransportCause(r.transport)>>]
      [] r.transport \in CallErrors ->
            [body |-> TextBody(""),
             err |-> <<"failed to call SOAP service: ", TransportCause(r.transport)>>]
      [] r.code # StatusOK ->
            [body |-> TextBody(""),
             err |-> <<"SOAP service returned non-OK status: ", Itoa(r.code)>>]
      [] r.transport \in BodyErrors ->
            [body |-> TextBody(""),
             err |-> <<"failed to read SOAP response body: ",
                       TransportCause(r.transport)>>]
      [] OTHER -> [body |-> r.body, err |-> <<>>]

\* xml.Unmarshal into models.StandardKYCResponseEnvelope : a body element
\* other than KYCResponse is skipped and leaves the zero KYCResult
UnmarshalStandard(body) ==
    IF ~body.wf
    THEN [ok |-> FALSE, status |-> "", message |-> <<>>, userData |-> <<>>]
    ELSE IF body.root = "KYCResponse"
    THEN [ok |-> TRUE, status |-> body.status, message |-> body.message,
          userData |-> body.userData]
    ELSE [ok |-> TRUE, status |-> "", message |-> <<>>, userData |-> <<>>]

\* xml.Unmarshal into models.DeleteKYCResponseEnvelope
UnmarshalDelete(body) ==
    IF ~body.wf
    THEN [ok |-> FALSE, status |-> "", message |-> <<>>]
    ELSE IF body.root = "DeleteKYCResponse"
    THEN [ok |-> TRUE, status |-> body.status, message |-> body.message]
    ELSE [ok |-> TRUE, status |-> "", message |-> <<>>]

ErrParse == <<"failed to parse SOAP response: ", "XML syntax error">>

ClientResult(entity, e) == [entity |-> entity, err |-> e]

\* a ReadKYC that, like CreateKYC, takes an answer without UserData for an
\* error
ReadKYC_RequiresUserData(clientID, r) ==
    LET d == doSOAPRequest(r)
        env == UnmarshalStandard(d.body)
    IN  IF d.err # <<>> THEN ClientResult(ZeroUserData, d.err)
        ELSE IF ~env.ok THEN ClientResult(ZeroUserData, ErrParse)
        ELSE IF env.userData = <<>>
        THEN ClientResult(ZeroUserData, <<"no UserData found in KYC Read response">>)
        ELSE ClientResult(UserData(env.userData[1].clientId, env.userData[1].risk,
                                   env.status, env.message), <<>>)

\* SOAPClient.ReadKYC
ReadKYC(clientID, r) ==
    LET d == doSOAPRequest(r)
        env == UnmarshalStandard(d.body)
    IN  IF d.err # <<>> THEN ClientResult(ZeroUserData, d.err)
        ELSE IF ~env.ok THEN ClientResult(ZeroUserData, ErrParse)
        ELSE IF env.userData # <<>>
        THEN ClientResult(UserData(env.userData[1].clientId, env.userData[1].risk,
                                   env.status, env.message), <<>>)
        ELSE IF env.status = "Error"
        THEN ClientResult(UserData(clientID, 0, env.status, env.message), <<>>)
        ELSE ClientResult(UserData("", 0, env.status, env.message), <<>>)

\* CreateKYC that answers with the data it sent, not the data echoed
CreateKYC_EchoInput(userData, r) ==
    LET d == doSOAPRequest(r)
        env == UnmarshalStandard(d.body)
    IN  IF d.err # <<>> THEN ClientResult(ZeroUserData, d.err)
        ELSE IF ~env.ok THEN ClientResult(ZeroUserData, ErrParse)
        ELSE IF env.userData = <<>>
        THEN ClientResult(ZeroUserData, <<"no UserData found in KYC Create response">>)
        ELSE ClientResult(Named(UserData(userData.clientId, userData.risk,
                                         env.status, env.message)), <<>>)

\* SOAPClient.CreateKYC
CreateKYC(userData, r) ==
    LET d == doSOAPRequest(r)
        env == UnmarshalStandard(d.body)
    IN  IF d.err # <<>> THEN ClientResult(ZeroUserData, d.err)
        ELSE IF ~env.ok THEN ClientResult(ZeroUserData, ErrParse)
        ELSE IF env.userData = <<>>
        THEN ClientResult(ZeroUserData, <<"no UserData found in KYC Create response">>)
        ELSE ClientResult(Named(UserData(env.userData[1].clientId,
                                         env.userData[1].risk,
                                         env.status, env.message)), <<>>)

\* SOAPClient.UpdateKYC
UpdateKYC(userData, r) ==
    LET d == doSOAPRequest(r)
        env == UnmarshalStandard(d.body)
    IN  IF d.err # <<>> THEN ClientResult(ZeroUserData, d.err)
        ELSE IF ~env.ok THEN ClientResult(ZeroUserData, ErrParse)
        ELSE IF env.userData = <<>>
        THEN ClientResult(ZeroUserData, <<"no UserData found in KYC Update response">>)
        ELSE ClientResult(Named(UserData(env.userData[1].clientId,
                                         env.userData[1].risk,
                                         env.status, env.message)), <<>>)

\* DeleteKYC that hands back the Status element, not the Message element
DeleteKYC_ReturnsStatus(clientID, r) ==
    LET d == doSOAPRequest(r)
        env == UnmarshalDelete(d.body)
    IN  IF d.err # <<>> THEN [message |-> <<>>, err |-> d.err]
        ELSE IF ~env.ok THEN [message |-> <<>>, err |-> ErrParse]
        ELSE [message |-> <<env.status>>, err |-> <<>>]

\* SOAPClient.DeleteKYC : (message, err)
DeleteKYC(clientID, r) ==
    LET d == doSOAPRequest(r)
        env == UnmarshalDelete(d.body)
    IN  IF d.err # <<>> THEN [message |-> <<>>, err |-> d.err]
        ELSE IF ~env.ok THEN [message |-> <<>>, err |-> ErrParse]
        ELSE [message |-> env.message, err |-> <<>>]

(***************************************************************************)
(* Bridge: inbound messages and json.Unmarshal                             *)
(***************************************************************************)

\* models.KafkaMessage
KafkaMessage(type, correlationId, clientId, userData) ==
    [type |-> type, correlationId |-> correlationId, clientId |-> clientId,
     userData |-> userData]

ZeroKafkaMessage == KafkaMessage("", "", "", ZeroUserData)

\* msg.Value.  wf: the bytes are a JSON object with fields of the right
\* type; a key may be Missing; userData is <<>> when the key is absent
RawMessage(wf, type, correlationId, clientId, userData) ==
    [wf |-> wf, type |-> type, correlationId |-> correlationId,
     clientId |-> clientId, userData |-> userData]

NoMessage == RawMessage(FALSE, "", "", "", <<>>)

Garbage == RawMessage(FALSE, "{not json", "", "", <<>>)

RawUserData ==
    {<<>>} \cup {<<[clientId |-> i, risk |-> r]>> :
                    i \in {"b", Missing}, r \in InboundRisks}

\* the messages a requester may put on the receive topic
\* (userData is only put on the kinds that read it)
InboundMessages ==
    {Garbage} \cup
    UNION { { RawMessage(TRUE, t, c, i, ud) :
                c \in CorrelationIds \cup {Missing},
                i \in ClientIds \cup {Missing},
                ud \in IF t \in {"CREATE", "UPDATE"} THEN RawUserData ELSE {<<>>} } :
            t \in Types \cup {Missing} }

\* a string field after json.Unmarshal: an absent key leaves ""
Field(v) == IF v = Missing THEN "" ELSE v

\* json.Unmarshal(msg.Value, &kafkaMsg)
Unmarshal(raw) ==
    IF ~raw.wf
    THEN [ok |-> FALSE, kafkaMsg |-> ZeroKafkaMessage]
    ELSE [ok |-> TRUE,
          kafkaMsg |->
            KafkaMessage(Field(raw.type), Field(raw.correlationId), Field(raw.clientId),
                IF raw.userData = <<>> THEN ZeroUserData
                ELSE UserData(Field(raw.userData[1].clientId), raw.userData[1].risk,
                              "", <<>>))]

(***************************************************************************)
(* The backend as the bridge meets it                                      *)
(***************************************************************************)

StubMessage == <<"stub: request rejected">>

\* the UserData element of a stand-in's answer
StubUser(risk) == UserData("b", risk, "", <<>>)

\* answers of a stand-in for the KYC service (an imposter, a proxy)
StubBodies ==
    {TextBody("<invalid-xml>")}
    \cup {KYCResponseEnvelope(st, StubMessage, ud) :
            st \in {"Success", "Error"},
            ud \in {<<>>, <<StubUser(30)>>}}
    \cup {KYCResponseEnvelope("Success", StubMessage, <<StubUser(NaN)>>)}
    \cup {DeleteKYCResponseEnvelope(st, StubMessage) : st \in {"Success", "Error"}}

StubResponses ==
    {Exchange("ok", StatusServiceUnavailable, TextBody("stub"))}
    \cup {Exchange("ok", 201,
                   KYCResponseEnvelope("Success", StubMessage, <<StubUser(30)>>))}
    \cup {Exchange("ok", StatusOK, b) : b \in StubBodies}

\* the write the KYC service reports done with its 200 answer to req, applied
\* to the record w of acknowledged writes
Track(w, req, code) ==
    IF code # StatusOK THEN w
    ELSE IF req.root \in {"CreateKYC", "UpdateKYC"}
    THEN [k \in (DOMAIN w) \cup {req.userData.clientId} |->
            IF k = req.userData.clientId THEN Named(req.userData) ELSE w[k]]
    ELSE IF req.root = "DeleteKYC"
    THEN [k \in (DOMAIN w) \ {req.clientId} |-> w[k]]
    ELSE w

\* the operations of the SOAP endpoint that write to the repository
WriteRoots == {"CreateKYC", "UpdateKYC", "DeleteKYC"}

\* the answer of soapHandler to the POST req of the bridge on the store u,
\* seen being what repo.GetAction returned to the handler of a KYCQuery
Handled(u, seen, req) ==
    IF req.root = "KYCQuery"
    THEN HandleKYCQuery(u,
                        IF seen.exists THEN [k \in {req.clientId} |-> seen.action]
                        ELSE <<>>,
                        req)
    ELSE soapHandler(u, <<>>, "POST", req)

(***************************************************************************)
(* Bridge: dispatch loop of main() (services/consumer/main.go)             *)
(***************************************************************************)

\* json.Marshal of a models.UserData: the untagged XMLName field is always
\* written, clientId and risk too; status and message are omitempty; a NaN
\* risk is an UnsupportedValueError
Marshal(entity) ==
    [ok |-> entity.risk # NaN,
     value |-> [XMLName |-> entity.xmlName,
                clientId |-> entity.clientId, risk |-> entity.risk,
                status |-> entity.status, message |-> entity.message,
                keys |-> {"XMLName", "clientId", "risk"}
                         \cup (IF entity.status # "" THEN {"status"} ELSE {})
                         \cup (IF entity.message # <<>> THEN {"message"} ELSE {})]]

\* a message whose header is taken from the wrong field
Message_HeaderFromClientId(topic, value, correlationId) ==
    [topic |-> topic, value |-> value,
     headers |-> <<[key |-> "correlationId", value |-> value.clientId]>>]

\* kafka.Message{Topic, Value, Headers: {correlationId}}
Message(topic, value, correlationId) ==
    [topic |-> topic, value |-> value,
     headers |-> <<[key |-> "correlationId", value |-> correlationId]>>]

\* errorEntity whose message leaves the cause out
ErrorEntity_NoCause(m, e) ==
    UserData(m.clientId, 0, "Error", <<"Failed to perform ", m.type, " operation">>)

\* errorEntity of the err != nil branch
ErrorEntity(m, e) ==
    UserData(m.clientId, 0, "Error",
             <<"Failed to perform ", m.type, " operation: ">> \o e)

\* a DELETE result that carries the risk the subject was stored with
DeleteEntity_StoredRisk(m, deleteMessage) ==
    UserData(m.clientId, LoadedRisk, "Success", deleteMessage)

\* processedEntity of the DELETE case
DeleteEntity(m, deleteMessage) == UserData(m.clientId, 0, "Success", deleteMessage)

\* a fix-up in which a top-level clientId replaces the one of userData
WithClientID_TopLevelWins(m) ==
    IF m.clientId # ""
    THEN [m EXCEPT !.userData.clientId = m.clientId]
    ELSE m

\* the fix-up of the CREATE and UPDATE cases
WithClientID(m) ==
    IF m.userData.clientId = ""
    THEN [m EXCEPT !.userData.clientId = m.clientId]
    ELSE m

\* the repository after NewInMemoryRepo and a loadUserDataFromFiles that read
\* the data folder
LoadedUsers ==
    [k \in {"a"} |->
        UserData("a", LoadedRisk, "Approved", <<"Initial KYC check passed">>)]

\* the repositories the KYC service starts with: the records of the data
\* folder, or none when the folder cannot be read
InitialStores == {LoadedUsers, <<>>}

\* the order of consumption and publication is not recorded
NotRecorded == [on |-> FALSE, consumed |-> 0, handed |-> <<>>]

\* the messages a recorded run consumes
MaxConsumed == 3

\* a recorded run stops consuming after MaxConsumed messages
MayConsume(o) == IF o.on THEN o.consumed < MaxConsumed ELSE TRUE

\* consumer.ReadMessage returned the next message of the topic
Consumed(o) == IF o.on THEN [o EXCEPT !.consumed = @ + 1] ELSE o

\* writer.WriteMessages returned nil for the result of the message at hand
Handed(o) == IF o.on THEN [o EXCEPT !.handed = Append(@, o.consumed)] ELSE o

\* no KYCQuery of a client other than the bridge is between its
\* repo.GetAction and its answer
NoFlight == [on |-> FALSE, clientId |-> "", seen |-> GetAction(<<>>, "")]

\* no client other than the bridge has called the SOAP endpoint.  method,
\* req, code, body: the last SOAP exchange; n: flips with every SOAP answer
\* written; flight: the KYCQuery under way
NoDirect == [method |-> "", req |-> SoapRequest("", "", ZeroUserData), code |-> 0,
             body |-> TextBody(""), n |-> 0, flight |-> NoFlight]

\* the requests of the bridge the KYC service holds at a time: the one the
\* SOAP client waits on and those it gave up waiting for
MaxPending == 1

\* the SOAP client waits on no request.  stage: "sent" (client.Do wrote the
\* request), "looked" (the handler of a KYCQuery has called repo.GetAction),
\* "answered" (the handler wrote its answer); seen: what repo.GetAction
\* returned; code, body: the answer
NoCall == [stage |-> "idle", req |-> SoapRequest("", "", ZeroUserData),
           seen |-> GetAction(<<>>, ""), code |-> 0, body |-> TextBody("")]

\* the goroutines that serve requests of the KYC service at the same time
Workers == {1, 2}

\* sync.RWMutex: the goroutine holding the write lock (0: none) and those
\* holding the read lock
Unlocked == [writer |-> 0, readers |-> {}]

\* a goroutine that runs no repository call
IdleWorker == [pc |-> "idle", op |-> "", arg |-> ZeroUserData, err |-> <<>>,
               seen |-> <<>>]

Init ==
    /\ users \in InitialStores
    /\ actions = <<>>
    /\ pc = "waitKafka"
    /\ msg = NoMessage
    /\ kafkaMsg = ZeroKafkaMessage
    /\ resp = NoExchange
    /\ processedEntity = ZeroUserData
    /\ err = <<>>
    /\ out = <<>>
    /\ produceErr = FALSE
    /\ backendCalls = 0
    /\ produceCalls = 0
    /\ url \in Urls
    /\ clock = 0
    /\ kafkaReady = FALSE
    /\ soapReady = FALSE
    /\ probeStatus = 0
    /\ blocked = 0
    /\ pollErr = ""
    /\ lastFailures = {}
    /\ lastWrite = users
    /\ direct = NoDirect
    /\ wire = NoCall
    /\ late = {}
    /\ mu = Unlocked
    /\ worker = [p \in Workers |-> IdleWorker]
    /\ created = [id \in ClientIds |-> 0]
    /\ order = NotRecorded

(***************************************************************************)
(* Bridge: startup of main(): the two readiness waits                      *)
(***************************************************************************)

\* the variables of the dispatch loop, untouched during startup
loopVars == <<msg, kafkaMsg, resp, processedEntity, err, out, produceErr,
              backendCalls, produceCalls, pollErr, lastFailures>>

\* ctx of kafka.DialContext in waitForKafkaConnection
DialContext == WithTimeout(DialTimeout)

\* http.DefaultClient of waitForSoapService: its Timeout is zero, no deadline
DefaultClient == Background

\* a readiness test that takes 200 alone for "ready"
ReadyStatuses_OnlyOK == {StatusOK}

\* the statuses waitForSoapService takes for "ready"
ReadyStatuses == {StatusOK, StatusMethodNotAllowed}

\* what answers the HEAD probe: the KYC service, or a stand-in
ProbeStatuses(u, acts) ==
    {soapHandler(u, acts, "HEAD", SoapRequest("", "", ZeroUserData)).code}
    \cup {StatusOK, StatusInternalServerError, StatusServiceUnavailable}

\* time.Sleep(1 * time.Second) before the next probe
Sleep(t) == Min(t + 1, MaxClock)

\* waitForKafkaConnection: time.Now().Before(endTime), kafka.DialContext starts
KafkaDial ==
    /\ pc = "waitKafka" /\ clock < StartupTimeout
    /\ pc' = "probeKafka"
    /\ blocked' = 0
    /\ UNCHANGED <<sideVars, lastWrite, users, actions, loopVars, url, clock, kafkaReady, soapReady, probeStatus>>

\* ctx of conn.Controller and conn.ReadPartitions: none is handed to them
\* and no deadline is set on the connection
MetadataContext == Background

\* kafka.DialContext returned a connection; conn.Controller starts
KafkaConnected ==
    /\ pc = "probeKafka"
    /\ pc' = "metaKafka"
    /\ UNCHANGED <<sideVars, lastWrite, users, actions, loopVars, url, clock, kafkaReady,
                   soapReady, probeStatus, blocked>>

\* the dial failed (at the latest when its context expired), or
\* conn.Controller or conn.ReadPartitions failed: sleep, then retry
KafkaNotReady ==
    /\ pc \in {"probeKafka", "metaKafka"}
    /\ pc' = "waitKafka"
    /\ clock' = Sleep(clock)
    /\ blocked' = 0
    /\ UNCHANGED <<sideVars, lastWrite, users, actions, loopVars, url, kafkaReady, soapReady, probeStatus>>

\* the dial and both metadata requests succeeded: return nil; main() goes on
\* to NewConsumer, NewProducer, NewSOAPClient and waitForSoapService
KafkaIsReady ==
    /\ pc = "metaKafka"
    /\ kafkaReady' = TRUE
    /\ pc' = "waitSoap"
    /\ clock' = 0
    /\ blocked' = 0
    /\ UNCHANGED <<sideVars, lastWrite, users, actions, loopVars, url, soapReady, probeStatus>>

\* waitForKafkaConnection left its loop: "timed out waiting for Kafka to be
\* ready", and main() ends in log.Fatalf
KafkaTimeout ==
    /\ pc = "waitKafka" /\ clock >= StartupTimeout
    /\ pc' = "exited"
    /\ UNCHANGED <<sideVars, lastWrite, users, actions, loopVars, startupVars, blocked>>

\* waitForSoapService: http.NewRequest; on an error sleep and retry, else
\* http.DefaultClient.Do starts
SoapProbe ==
    /\ pc = "waitSoap" /\ clock < StartupTimeout
    /\ IF url = InvalidURL
       THEN /\ clock' = Sleep(clock)
            /\ pc' = "waitSoap"
       ELSE /\ clock' = clock
            /\ pc' = "probeSoap"
    /\ blocked' = 0
    /\ UNCHANGED <<sideVars, lastWrite, users, actions, loopVars, url, kafkaReady, soapReady, probeStatus>>

\* http.DefaultClient.Do returned a response
SoapAnswer ==
    /\ pc = "probeSoap"
    /\ \E code \in ProbeStatuses(users, actions) : probeStatus' = code
    /\ pc' = "checkSoap"
    /\ UNCHANGED <<sideVars, lastWrite, users, actions, loopVars, url, clock, kafkaReady, soapReady,
                   blocked>>

\* 200 or 405 returns nil and main() enters the loop; any other status is
\* logged, sleep, then retry
SoapCheck ==
    /\ pc = "checkSoap"
    /\ IF probeStatus \in ReadyStatuses
       THEN /\ soapReady' = TRUE
            /\ pc' = "poll"
            /\ clock' = 0
       ELSE /\ soapReady' = soapReady
            /\ pc' = "waitSoap"
            /\ clock' = Sleep(clock)
    /\ probeStatus' = 0
    /\ blocked' = 0
    /\ UNCHANGED <<sideVars, lastWrite, users, actions, loopVars, url, kafkaReady>>

\* http.DefaultClient.Do returned an error (no route, connection refused)
SoapUnreachable ==
    /\ pc = "probeSoap"
    /\ pc' = "waitSoap"
    /\ clock' = Sleep(clock)
    /\ blocked' = 0
    /\ UNCHANGED <<sideVars, lastWrite, users, actions, loopVars, url, kafkaReady, soapReady, probeStatus>>

\* a SOAP wait whose time-out lets main() go on into the loop
SoapTimeout_EntersLoop ==
    /\ pc = "waitSoap" /\ clock >= StartupTimeout
    /\ pc' = "poll"
    /\ UNCHANGED <<sideVars, lastWrite, users, actions, loopVars, startupVars, blocked>>

\* waitForSoapService left its loop: "timed out waiting for SOAP service to
\* be ready", and main() ends in log.Fatalf
SoapTimeout ==
    /\ pc = "waitSoap" /\ clock >= StartupTimeout
    /\ pc' = "exited"
    /\ UNCHANGED <<sideVars, lastWrite, users, actions, loopVars, startupVars, blocked>>

\* a second passes while a probe is in flight and may still block
ProbeTick ==
    /\ pc \in {"probeKafka", "metaKafka", "probeSoap"}
    /\ clock < MaxClock
    /\ MayStillBlock(CASE pc = "probeKafka" -> DialContext
                       [] pc = "metaKafka" -> MetadataContext
                       [] OTHER -> DefaultClient,
                     blocked)
    /\ clock' = clock + 1
    /\ blocked' = blocked + 1
    /\ UNCHANGED <<sideVars, lastWrite, users, actions, pc, loopVars, url, kafkaReady, soapReady, probeStatus>>

(***************************************************************************)
(* Bridge: the poll of the dispatch loop                                   *)
(***************************************************************************)

\* ctx of consumer.ReadMessage in the loop
ReadContext == Background

\* consumer.ReadMessage has not returned after MaxBlocked seconds: no
\* message arrived and nothing ends the wait
PollWait ==
    /\ pc = "poll"
    /\ blocked = 0
    /\ MayStillBlock(ReadContext, MaxBlocked - 1)
    /\ blocked' = MaxBlocked
    /\ UNCHANGED <<sideVars, lastWrite, users, actions, pc, msg, kafkaMsg, resp, processedEntity, err,
                   out, produceErr, backendCalls, produceCalls, startupVars, pollErr, lastFailures>>

\* consumer.ReadMessage returned an error: it is logged and the loop body
\* ends, which calls ReadMessage again
PollError ==
    /\ pc = "poll"
    /\ \E e \in ConsumerErrors : pollErr' = e
    /\ pc' = "poll"
    /\ blocked' = 0
    /\ UNCHANGED <<sideVars, lastWrite, users, actions, msg, kafkaMsg, resp, processedEntity, err,
                   out, produceErr, backendCalls, produceCalls, startupVars, lastFailures>>

\* Poll without the check of the json.Unmarshal error
Poll_IgnoreDecodeError ==
    /\ pc = "poll"
    /\ \E raw \in InboundMessages :
          /\ msg' = raw
          /\ kafkaMsg' = Unmarshal(raw).kafkaMsg
          /\ pc' = "dispatch"
    /\ UNCHANGED <<kycVars, lastWrite, users, actions, resp, processedEntity, err, out, produceErr,
                   backendCalls, produceCalls>>
    /\ blocked' = 0
    /\ MayConsume(order) /\ order' = Consumed(order)
    /\ pollErr' = ""
    /\ lastFailures' = {}
    /\ UNCHANGED startupVars

\* a poll that does not wait for the publish of the message before
Poll_WhileResponding ==
    /\ pc \in {"poll", "respond"}
    /\ \E raw \in InboundMessages :
          /\ msg' = raw
          /\ kafkaMsg' = Unmarshal(raw).kafkaMsg
          /\ pc' = IF Unmarshal(raw).ok THEN "dispatch" ELSE "done"
    /\ UNCHANGED <<kycVars, lastWrite, users, actions, resp, processedEntity, err, out, produceErr,
                   backendCalls, produceCalls>>
    /\ blocked' = 0
    /\ MayConsume(order) /\ order' = Consumed(order)
    /\ pollErr' = ""
    /\ lastFailures' = {}
    /\ UNCHANGED startupVars

\* consumer.ReadMessage returned a message; json.Unmarshal; on a decode
\* error the message is logged and the iteration ends
Poll ==
    /\ pc = "poll"
    /\ \E raw \in InboundMessages :
          /\ msg' = raw
          /\ kafkaMsg' = Unmarshal(raw).kafkaMsg
          /\ pc' = IF Unmarshal(raw).ok THEN "dispatch" ELSE "done"
    /\ UNCHANGED <<kycVars, lastWrite, users, actions, resp, processedEntity, err, out, produceErr,
                   backendCalls, produceCalls>>
    /\ blocked' = 0
    /\ MayConsume(order) /\ order' = Consumed(order)
    /\ pollErr' = ""
    /\ lastFailures' = {}
    /\ UNCHANGED startupVars

\* the soapClient call of the case of m, from the exchange r its
\* doSOAPRequest made: (processedEntity, err)
ClientCall(m, r) ==
    CASE m.type = "READ"   -> ReadKYC(m.clientId, r)
      [] m.type = "CREATE" -> CreateKYC(m.userData, r)
      [] m.type = "UPDATE" -> UpdateKYC(m.userData, r)
      [] OTHER ->
            ClientResult(IF DeleteKYC(m.clientId, r).err = <<>>
                         THEN DeleteEntity(m, DeleteKYC(m.clientId, r).message)
                         ELSE ZeroUserData,
                         DeleteKYC(m.clientId, r).err)

\* client.Do of doSOAPRequest writes the request: the call is under way.  The
\* requests the KYC service still holds stay with it; a send is explored as
\* long as the service then holds MaxPending requests of the bridge at most
Send(req) ==
    /\ Cardinality(late) + 1 <= MaxPending
    /\ wire' = [NoCall EXCEPT !.stage = "sent", !.req = req]
    /\ UNCHANGED late
    /\ backendCalls' = backendCalls + 1
    /\ pc' = "await"
    /\ UNCHANGED <<users, actions, lastWrite, msg, resp, processedEntity, err, out,
                   produceErr, produceCalls, direct, mu, worker, created,
                   order, startupVars, pollVars>>

\* case "READ": soapClient.ReadKYC is called
DoRead ==
    /\ pc = "dispatch" /\ kafkaMsg.type = "READ"
    /\ UNCHANGED kafkaMsg
    /\ Send(KYCQueryRequest(kafkaMsg.clientId))

\* case "CREATE": the clientId fix-up, then soapClient.CreateKYC is called
DoCreate ==
    /\ pc = "dispatch" /\ kafkaMsg.type = "CREATE"
    /\ kafkaMsg' = WithClientID(kafkaMsg)
    /\ Send(CreateKYCRequest(kafkaMsg'.userData))

\* case "UPDATE": the clientId fix-up, then soapClient.UpdateKYC is called
DoUpdate ==
    /\ pc = "dispatch" /\ kafkaMsg.type = "UPDATE"
    /\ kafkaMsg' = WithClientID(kafkaMsg)
    /\ Send(UpdateKYCRequest(kafkaMsg'.userData))

\* case "DELETE": soapClient.DeleteKYC is called
DoDelete ==
    /\ pc = "dispatch" /\ kafkaMsg.type = "DELETE"
    /\ UNCHANGED kafkaMsg
    /\ Send(DeleteKYCRequest(kafkaMsg.clientId))

\* soapHandler, case "KYCQuery", up to repo.GetAction, for the request of the
\* bridge: the override of the id is read under the read lock, which is
\* released again
HandlerLookup ==
    /\ wire.stage = "sent" /\ wire.req.root = "KYCQuery"
    /\ wire' = [wire EXCEPT !.stage = "looked",
                            !.seen = GetAction(actions, wire.req.clientId)]
    /\ UNCHANGED <<users, actions, lastWrite, pc, msg, kafkaMsg, resp, processedEntity,
                   err, out, produceErr, backendCalls, produceCalls, direct, mu, worker, created, order, late, startupVars, pollVars>>

\* soapHandler serves the request of the bridge, whether or not the bridge
\* still waits: for a KYCQuery from repo.GetAction on (the override read
\* then decides, Timeout after its time.Sleep of 5 s, else repo.Read on the
\* store as it is by now), for the others its one repository call; the
\* answer is written
HandlerAnswer ==
    /\ wire.stage = (IF wire.req.root = "KYCQuery" THEN "looked" ELSE "sent")
    /\ LET h == Handled(users, wire.seen, wire.req)
       IN  /\ users' = h.users
           /\ lastWrite' = Track(lastWrite, wire.req, h.code)
           /\ wire' = [wire EXCEPT !.stage = "answered", !.seen = NoCall.seen,
                                   !.code = h.code, !.body = h.body]
    /\ UNCHANGED <<actions, pc, msg, kafkaMsg, resp, processedEntity, err, out,
                   produceErr, backendCalls, produceCalls, direct, mu,
                   worker, created, order, late, startupVars, pollVars>>

\* soapHandler serves a write the SOAP client gave up waiting for; nobody
\* reads its answer
HandlerLate ==
    /\ \E req \in late :
          LET h == Handled(users, NoCall.seen, req)
          IN  /\ users' = h.users
              /\ lastWrite' = Track(lastWrite, req, h.code)
              /\ late' = late \ {req}
    /\ UNCHANGED <<actions, pc, msg, kafkaMsg, resp, processedEntity, err, out,
                   produceErr, backendCalls, produceCalls, direct, mu,
                   worker, created, order, wire, startupVars, pollVars>>

\* doSOAPRequest made the exchange r; the soapClient call returns and the
\* switch statement ends
Return(r) ==
    /\ pc = "await"
    /\ resp' = r
    /\ processedEntity' = ClientCall(kafkaMsg, r).entity
    /\ err' = ClientCall(kafkaMsg, r).err
    /\ wire' = NoCall
    /\ pc' = "respond"
    /\ blocked' = IF r.transport \in TimeoutErrors THEN ClientTimeout ELSE 0
    /\ UNCHANGED <<users, actions, lastWrite, msg, kafkaMsg, out, produceErr,
                   backendCalls, produceCalls, direct, mu, worker,
                   created, order, startupVars, pollErr, lastFailures>>

\* client.Do returned the headers the handler wrote; io.ReadAll read the
\* body, or failed on the body of a 200 answer
CallAnswered ==
    /\ wire.stage = "answered"
    /\ \E t \in {"ok"} \cup (IF wire.code = StatusOK THEN BodyErrors ELSE {}) :
          Return(IF t = "ok" THEN Exchange("ok", wire.code, wire.body)
                 ELSE Exchange(t, StatusOK, TextBody("")))
    /\ UNCHANGED late

\* client.Do found nobody listening: the request reached no handler
CallRefused ==
    /\ wire.stage = "sent"
    /\ Return(Exchange("refused", 0, TextBody("")))
    /\ UNCHANGED late

\* a stand-in for the KYC service took the request and answered it
CallStandIn ==
    /\ wire.stage = "sent"
    /\ \E r \in StubResponses : Return(r)
    /\ UNCHANGED late

\* a timeout after which the request is sent once more
CallTimedOut_Resend ==
    /\ pc = "await"
    /\ wire' = [NoCall EXCEPT !.stage = "sent", !.req = wire.req]
    /\ backendCalls' = backendCalls + 1
    /\ backendCalls < 2
    /\ UNCHANGED <<users, actions, lastWrite, pc, msg, kafkaMsg, resp, processedEntity,
                   err, out, produceErr, produceCalls, direct, mu, worker,
                   created, order, late, startupVars, pollVars>>

\* http.Client.Timeout elapsed before the headers came: client.Do returns
\* its error and the connection is given up.  The handler may have served
\* the request by then; a write it has not served yet is lost with the
\* connection, or stays with the KYC service (kept), which serves it later
CallTimedOut ==
    /\ \E kept \in BOOLEAN :
          /\ kept => /\ wire.stage = "sent" /\ wire.req.root \in WriteRoots
                     /\ wire.req \notin late
                     /\ Cardinality(late) + 1 <= MaxPending
          /\ late' = IF kept THEN late \cup {wire.req} ELSE late
    /\ Return(Exchange("timeout", 0, TextBody("")))

\* a default case that sets no error
DoUnknown_NoError ==
    /\ pc = "dispatch" /\ kafkaMsg.type \notin KnownTypes
    /\ err' = <<>>
    /\ pc' = "respond"
    /\ UNCHANGED <<sideVars, lastWrite, users, actions, msg, kafkaMsg, resp, processedEntity, out,
                   produceErr, backendCalls, produceCalls>>
    /\ UNCHANGED <<startupVars, pollVars>>

\* default: unknown message type, no call of the SOAP client
DoUnknown ==
    /\ pc = "dispatch" /\ kafkaMsg.type \notin KnownTypes
    /\ err' = <<"unknown Kafka message type: ", kafkaMsg.type>>
    /\ pc' = "respond"
    /\ UNCHANGED <<sideVars, lastWrite, users, actions, msg, kafkaMsg, resp, processedEntity, out,
                   produceErr, backendCalls, produceCalls>>
    /\ UNCHANGED <<startupVars, pollVars>>

\* a Produce that is called a second time when the first call failed
Produce_Retry(message) ==
    /\ out' = <<message>>
    /\ \E failed \in BOOLEAN, failedAgain \in BOOLEAN :
          /\ produceCalls' = produceCalls + (IF failed THEN 2 ELSE 1)
          /\ produceErr' = (failed /\ failedAgain)
          /\ order' = IF failed /\ failedAgain THEN order ELSE Handed(order)

\* a Produce run in a goroutine of its own: the loop goes on before
\* WriteMessages has returned
Produce_Detached(message) ==
    /\ out' = <<message>>
    /\ produceCalls' = produceCalls + 1
    /\ produceErr' = FALSE
    /\ UNCHANGED <<order>>

\* producer.Produce(message): one writer.WriteMessages, whose error is
\* handed back.  What the writer and the broker do with the message is not
\* part of the state
Produce(message) ==
    /\ out' = <<message>>
    /\ produceCalls' = produceCalls + 1
    /\ \E failed \in BOOLEAN :
          /\ produceErr' = failed
          /\ order' = IF failed THEN order ELSE Handed(order)

\* an err != nil branch that only logs a transport error of the backend call
RespondError_DropsTransportErrors ==
    /\ pc = "respond" /\ err # <<>>
    /\ LET m == Marshal(ErrorEntity(kafkaMsg, err))
       IN  IF m.ok /\ resp.transport \notin CallErrors \cup BodyErrors
           THEN Produce(Message(KafkaResponseTopic, m.value, kafkaMsg.correlationId))
           ELSE UNCHANGED <<out, produceErr, produceCalls, order>>
    /\ pc' = "done"
    /\ UNCHANGED <<kycVars, lastWrite, users, actions, msg, kafkaMsg, resp, processedEntity, err,
                   backendCalls>>
    /\ UNCHANGED <<startupVars, pollVars>>

\* if err != nil { ... produce errorEntity ...; continue }
RespondError ==
    /\ pc = "respond" /\ err # <<>>
    /\ LET m == Marshal(ErrorEntity(kafkaMsg, err))
       IN  IF m.ok
           THEN Produce(Message(KafkaResponseTopic, m.value, kafkaMsg.correlationId))
           ELSE UNCHANGED <<out, produceErr, produceCalls, order>>
    /\ pc' = "done"
    /\ UNCHANGED <<kycVars, lastWrite, users, actions, msg, kafkaMsg, resp, processedEntity, err,
                   backendCalls>>
    /\ UNCHANGED <<startupVars, pollVars>>

\* a success path that ends the process when the Produce call failed
RespondSuccess_FatalOnProduceError ==
    /\ pc = "respond" /\ err = <<>>
    /\ LET m == Marshal(processedEntity)
       IN  IF m.ok
           THEN Produce(Message(KafkaResponseTopic, m.value, kafkaMsg.correlationId))
           ELSE UNCHANGED <<out, produceErr, produceCalls, order>>
    /\ pc' = IF produceErr' THEN "exited" ELSE "done"
    /\ UNCHANGED <<kycVars, lastWrite, users, actions, msg, kafkaMsg, resp, processedEntity, err,
                   backendCalls>>
    /\ UNCHANGED <<startupVars, pollVars>>

\* the success path: marshal processedEntity and produce it
RespondSuccess ==
    /\ pc = "respond" /\ err = <<>>
    /\ LET m == Marshal(processedEntity)
       IN  IF m.ok
           THEN Produce(Message(KafkaResponseTopic, m.value, kafkaMsg.correlationId))
           ELSE UNCHANGED <<out, produceErr, produceCalls, order>>
    /\ pc' = "done"
    /\ UNCHANGED <<kycVars, lastWrite, users, actions, msg, kafkaMsg, resp, processedEntity, err,
                   backendCalls>>
    /\ UNCHANGED <<startupVars, pollVars>>

\* what the iteration logged as failed, by the log.Printf that reports it
Failures ==
    (IF ~Unmarshal(msg).ok THEN {"decode"} ELSE {})
    \cup (IF Unmarshal(msg).ok /\ kafkaMsg.type \notin KnownTypes
          THEN {"unknown kind"} ELSE {})
    \cup (IF backendCalls > 0 /\ err # <<>> THEN {"backend"} ELSE {})
    \cup (IF Unmarshal(msg).ok /\ produceCalls = 0 THEN {"marshal"} ELSE {})
    \cup (IF produceErr THEN {"publish"} ELSE {})

\* a loop whose kafkaMsg, processedEntity and err are declared before the
\* for statement and so keep their values into the next iteration
Continue_KeepsRequest ==
    /\ pc = "done"
    /\ pc' = "poll"
    /\ msg' = NoMessage
    /\ resp' = NoExchange
    /\ out' = <<>>
    /\ produceErr' = FALSE
    /\ backendCalls' = 0
    /\ produceCalls' = 0
    /\ UNCHANGED <<sideVars, lastWrite, users, actions, kafkaMsg, processedEntity, err>>
    /\ blocked' = 0
    /\ lastFailures' = Failures
    /\ UNCHANGED <<startupVars, pollErr>>

\* the end of the loop body: the locals of the iteration go out of scope
Continue ==
    /\ pc = "done"
    /\ pc' = "poll"
    /\ msg' = NoMessage
    /\ kafkaMsg' = ZeroKafkaMessage
    /\ resp' = NoExchange
    /\ processedEntity' = ZeroUserData
    /\ err' = <<>>
    /\ out' = <<>>
    /\ produceErr' = FALSE
    /\ backendCalls' = 0
    /\ produceCalls' = 0
    /\ UNCHANGED <<sideVars, lastWrite, users, actions>>
    /\ blocked' = 0
    /\ lastFailures' = Failures
    /\ UNCHANGED <<startupVars, pollErr>>

(***************************************************************************)
(* KYC service: admin API for action overrides (admin handlers)            *)
(***************************************************************************)

\* the client ids the tests set overrides for
ActionClients == {"a"}

\* InMemoryRepo.SetAction, reached through adminSetAction
SetAction ==
    /\ \E c \in ActionClients, a \in Actions :
          actions' = [k \in (DOMAIN actions) \cup {c} |->
                        IF k = c THEN a ELSE actions[k]]
    /\ UNCHANGED <<sideVars, lastWrite, users, pc, msg, kafkaMsg, resp, processedEntity, err, out,
                   produceErr, backendCalls, produceCalls>>
    /\ UNCHANGED <<startupVars, pollVars>>

\* InMemoryRepo.ClearAction, reached through adminClearAction
ClearAction ==
    /\ \E c \in ActionClients :
          actions' = [k \in (DOMAIN actions) \ {c} |-> actions[k]]
    /\ UNCHANGED <<sideVars, lastWrite, users, pc, msg, kafkaMsg, resp, processedEntity, err, out,
                   produceErr, backendCalls, produceCalls>>
    /\ UNCHANGED <<startupVars, pollVars>>

Next ==
    \/ KafkaDial
    \/ KafkaConnected
    \/ KafkaNotReady
    \/ KafkaIsReady
    \/ KafkaTimeout
    \/ SoapProbe
    \/ SoapAnswer
    \/ SoapCheck
    \/ SoapUnreachable
    \/ SoapTimeout
    \/ ProbeTick
    \/ PollWait
    \/ PollError
    \/ Poll
    \/ DoRead
    \/ DoCreate
    \/ DoUpdate
    \/ DoDelete
    \/ DoUnknown
    \/ HandlerLookup
    \/ HandlerAnswer
    \/ HandlerLate
    \/ CallAnswered
    \/ CallRefused
    \/ CallStandIn
    \/ CallTimedOut
    \/ RespondError
    \/ RespondSuccess
    \/ Continue
    \/ SetAction
    \/ ClearAction

Spec == Init /\ [][Next]_vars

(***************************************************************************)
(* KYC service: requests of clients other than the bridge                  *)
(***************************************************************************)

\* the HTTP methods such a client uses
Methods == {"POST", "GET", "HEAD"}

\* the ids and records such a client names
DirectIds == ClientIds \cup {""}
DirectRecords == {UserData(id, 10, "", <<>>) : id \in DirectIds}

\* the request bodies such a client sends: no XML; an envelope with an
\* empty body or an unknown body element; the four operations, CreateKYC
\* and UpdateKYC also with a <Risk> that is no number, and each of the four
\* also with its element in no namespace
DirectRequests ==
    {SoapRequest(r, "", ZeroUserData) : r \in {NotXML, "", "PatchKYC"}}
    \cup {SoapRequest(r, id, ZeroUserData) :
            r \in {"KYCQuery", "DeleteKYC"}, id \in DirectIds}
    \cup {SoapRequest(r, "", ud) :
            r \in {"CreateKYC", "UpdateKYC"},
            ud \in DirectRecords \cup {UserData("b", BadFloat, "", <<>>)}}
    \cup {Unqualified(SoapRequest(r, "a", ZeroUserData)) :
            r \in {"KYCQuery", "DeleteKYC"}}
    \cup {Unqualified(SoapRequest(r, "", UserData(id, 10, "", <<>>))) :
            r \in {"CreateKYC", "UpdateKYC"}, id \in ClientIds}

\* the variables the KYC service serving such clients leaves alone
outsideKyc == <<pc, msg, kafkaMsg, resp, processedEntity, err, out, produceErr,
                backendCalls, produceCalls, startupVars, pollVars, mu,
                worker, created, order, wire, late>>

\* the bodies such a client sends with a method other than POST
UnsafeRequests == {SoapRequest("DeleteKYC", "a", ZeroUserData)}

\* mux.HandleFunc("/soap", ...): soapHandler serves one request that is no
\* KYCQuery that decodes: at most one repository call is made for it
ServeSoap ==
    /\ \E method \in Methods, req \in DirectRequests :
          /\ ~(method = "POST" /\ req.root = "KYCQuery" /\ req.space = KycNamespace)
          /\ method # "POST" => req \in UnsafeRequests
          /\ LET h == soapHandler(users, actions, method, req)
             IN  /\ users' = h.users
                 /\ direct' = [direct EXCEPT !.method = method, !.req = req,
                                             !.code = h.code, !.body = h.body,
                                             !.n = 1 - @]
                 /\ lastWrite' = Track(lastWrite, req, h.code)
    /\ UNCHANGED <<actions, outsideKyc>>

\* soapHandler, case "KYCQuery" of a request that decodes, up to
\* repo.GetAction: the override of the id is read under the read lock, which
\* is released again
QueryLookup ==
    /\ ~direct.flight.on
    /\ \E id \in DirectIds :
          direct' = [direct EXCEPT !.flight = [on |-> TRUE, clientId |-> id,
                                               seen |-> GetAction(actions, id)]]
    /\ UNCHANGED <<users, actions, lastWrite, outsideKyc>>

\* soapHandler, case "KYCQuery", from repo.GetAction on: the override that
\* was read decides (Timeout: after time.Sleep of 5 s); without one
\* repo.Read is called on the store as it is by now; the answer is written
QueryAnswer ==
    /\ direct.flight.on
    /\ LET id == direct.flight.clientId
           seen == direct.flight.seen
           h == HandleKYCQuery(users,
                               IF seen.exists THEN [k \in {id} |-> seen.action]
                               ELSE <<>>,
                               KYCQueryRequest(id))
       IN  direct' = [direct EXCEPT !.method = "POST", !.req = KYCQueryRequest(id),
                                    !.code = h.code, !.body = h.body,
                                    !.n = 1 - @, !.flight = NoFlight]
    /\ UNCHANGED <<users, actions, lastWrite, outsideKyc>>

\* a request body of the admin API.  ok: json.NewDecoder(r.Body).Decode
\* accepts it; userData: what it decodes to
JsonBody(ok, userData) == [ok |-> ok, userData |-> userData]

\* a request body that is no JSON document
NotJSON == JsonBody(FALSE, ZeroUserData)

\* the bodies the clients of the admin API send: the record user1.json
\* holds, the same without its clientId, a new record, no JSON
AdminBodies ==
    {JsonBody(TRUE, ud) : ud \in {LoadedUsers["a"],
                                  [LoadedUsers["a"] EXCEPT !.clientId = ""],
                                  UserData("b", 50, "", <<>>)}}
    \cup {NotJSON}

\* adminCreateUser, for a POST
adminCreateUser(u, body) ==
    IF ~body.ok THEN [code |-> StatusBadRequest, users |-> u]
    ELSE IF Create(u, body.userData).err # <<>>
    THEN [code |-> StatusConflict, users |-> u]
    ELSE [code |-> StatusCreated, users |-> Create(u, body.userData).users]

\* adminUpdateUser, for a PUT
adminUpdateUser(u, clientID, body) ==
    IF clientID = "" \/ ~body.ok THEN [code |-> StatusBadRequest, users |-> u]
    ELSE IF body.userData.clientId # "" /\ body.userData.clientId # clientID
    THEN [code |-> StatusBadRequest, users |-> u]
    ELSE LET userData == [body.userData EXCEPT !.clientId = clientID]
         IN  IF Update(u, userData).err # <<>>
             THEN [code |-> StatusNotFound, users |-> u]
             ELSE [code |-> StatusOK, users |-> Update(u, userData).users]

\* adminDeleteUser, for a DELETE
adminDeleteUser(u, clientID) ==
    IF clientID = "" THEN [code |-> StatusBadRequest, users |-> u]
    ELSE IF Delete(u, clientID).err # <<>> THEN [code |-> StatusNotFound, users |-> u]
    ELSE [code |-> StatusOK, users |-> Delete(u, clientID).users]

\* POST /admin/v1/users
AdminCreateUser ==
    /\ \E body \in AdminBodies :
          /\ users' = adminCreateUser(users, body).users
          /\ lastWrite' = IF adminCreateUser(users, body).code = StatusCreated
                          THEN Put(lastWrite, body.userData.clientId, body.userData)
                          ELSE lastWrite
    /\ UNCHANGED <<actions, direct, outsideKyc>>

\* PUT /admin/v1/users/{clientID}
AdminUpdateUser ==
    /\ \E clientID \in ClientIds, body \in AdminBodies :
          /\ users' = adminUpdateUser(users, clientID, body).users
          /\ lastWrite' = IF adminUpdateUser(users, clientID, body).code = StatusOK
                          THEN Put(lastWrite, clientID,
                                   [body.userData EXCEPT !.clientId = clientID])
                          ELSE lastWrite
    /\ UNCHANGED <<actions, direct, outsideKyc>>

\* DELETE /admin/v1/users/{clientID}
AdminDeleteUser ==
    /\ \E clientID \in ClientIds :
          /\ users' = adminDeleteUser(users, clientID).users
          /\ lastWrite' = IF adminDeleteUser(users, clientID).code = StatusOK
                          THEN Remove(lastWrite, clientID)
                          ELSE lastWrite
    /\ UNCHANGED <<actions, direct, outsideKyc>>

\* the KYC service serving SOAP clients and the admin API
NextKyc ==
    \/ ServeSoap
    \/ QueryLookup
    \/ QueryAnswer
    \/ AdminCreateUser
    \/ AdminUpdateUser
    \/ AdminDeleteUser
    \/ SetAction
    \/ ClearAction

SpecKyc == Init /\ [][NextKyc]_vars

(***************************************************************************)
(* KYC service: repository calls of concurrent request goroutines          *)
(***************************************************************************)

\* the variables no repository call touches
outsideRepo == <<actions, pc, msg, kafkaMsg, resp, processedEntity, err, out,
                 produceErr, backendCalls, produceCalls, startupVars,
                 pollVars, lastWrite, direct, order, wire, late>>

\* the records the concurrent requests carry
WorkerRecords == {UserData(id, r, "", <<>>) : id \in ClientIds, r \in {0, 10}}

\* the repository calls of the SOAP and admin handlers; List is the loop
\* of adminListUsers over repo.users
RepoOps ==
    {[op |-> o, arg |-> ud] : o \in {"Create", "Update"}, ud \in WorkerRecords}
    \cup {[op |-> o, arg |-> UserData(id, 0, "", <<>>)] :
            o \in {"Read", "Delete"}, id \in ClientIds}
    \cup {[op |-> "List", arg |-> ZeroUserData]}

WriteOps == {"Create", "Update", "Delete"}

\* a map entry whose assignment is under way: a goroutine reading it
\* without the lock sees a record that is not the one being stored
Torn(userData) == [userData EXCEPT !.status = "<torn>"]

\* a Lock that does not wait for the holders of the mutex
CanLock_Unguarded(m) == TRUE

\* r.mu.Lock() returns: no goroutine holds the mutex
CanLock(m) == m.writer = 0 /\ m.readers = {}

\* r.mu.RLock() returns: no goroutine holds the write lock
CanRLock(m) == m.writer = 0

\* a handler goroutine calls a repository method
Call ==
    /\ \E p \in Workers, o \in RepoOps :
          /\ worker[p].pc = "idle"
          /\ worker' = [worker EXCEPT ![p] =
                           [pc |-> "lock", op |-> o.op, arg |-> o.arg, err |-> <<>>,
                            seen |-> <<>>]]
    /\ UNCHANGED <<users, mu, created, outsideRepo>>

\* r.mu.Lock() of Create, Update and Delete
Lock ==
    /\ \E p \in Workers :
          /\ worker[p].pc = "lock" /\ worker[p].op \in WriteOps
          /\ CanLock(mu)
          /\ mu' = [mu EXCEPT !.writer = p]
          /\ worker' = [worker EXCEPT ![p].pc = "check"]
    /\ UNCHANGED <<users, created, outsideRepo>>

\* r.mu.RLock() of Read and of adminListUsers
RLock ==
    /\ \E p \in Workers :
          /\ worker[p].pc = "lock" /\ worker[p].op \notin WriteOps
          /\ CanRLock(mu)
          /\ mu' = [mu EXCEPT !.readers = @ \cup {p}]
          /\ worker' = [worker EXCEPT ![p].pc = "read"]
    /\ UNCHANGED <<users, created, outsideRepo>>

\* if _, exists := r.users[id]; exists / !exists { return fmt.Errorf(...) }
Check ==
    /\ \E p \in Workers :
          LET w == worker[p]
              id == w.arg.clientId
              held == id \in DOMAIN users
          IN  /\ w.pc = "check"
              /\ worker' = [worker EXCEPT ![p] =
                    IF w.op = "Create" /\ held
                    THEN [w EXCEPT !.pc = "unlock", !.err = ErrAlreadyExists(id)]
                    ELSE IF w.op # "Create" /\ ~held
                    THEN [w EXCEPT !.pc = "unlock", !.err = ErrNotFound(id)]
                    ELSE [w EXCEPT !.pc = IF w.op = "Delete" THEN "remove" ELSE "store"]]
    /\ UNCHANGED <<users, mu, created, outsideRepo>>

\* r.users[id] = userData, begun
Store ==
    /\ \E p \in Workers :
          /\ worker[p].pc = "store"
          /\ users' = Put(users, worker[p].arg.clientId, Torn(worker[p].arg))
          /\ worker' = [worker EXCEPT ![p].pc = "stored"]
    /\ UNCHANGED <<mu, created, outsideRepo>>

\* r.users[id] = userData, done; return nil
StoreDone ==
    /\ \E p \in Workers :
          LET id == worker[p].arg.clientId
          IN  /\ worker[p].pc = "stored"
              /\ users' = Put(users, id, worker[p].arg)
              /\ created' = IF worker[p].op = "Create"
                             THEN [created EXCEPT ![id] = @ + 1]
                             ELSE created
              /\ worker' = [worker EXCEPT ![p].pc = "unlock"]
    /\ UNCHANGED <<mu, outsideRepo>>

\* delete(r.users, clientID); return nil
RemoveEntry ==
    /\ \E p \in Workers :
          LET id == worker[p].arg.clientId
          IN  /\ worker[p].pc = "remove"
              /\ users' = Remove(users, id)
              /\ created' = [created EXCEPT ![id] = 0]
              /\ worker' = [worker EXCEPT ![p].pc = "unlock"]
    /\ UNCHANGED <<mu, outsideRepo>>

\* the map read of Read, or the range loop of adminListUsers
ReadEntries ==
    /\ \E p \in Workers :
          LET w == worker[p]
              id == w.arg.clientId
          IN  /\ w.pc = "read"
              /\ worker' = [worker EXCEPT ![p] =
                    IF w.op = "List"
                    THEN [w EXCEPT !.pc = "unlock",
                                   !.seen = <<{users[k] : k \in DOMAIN users}>>]
                    ELSE IF id \in DOMAIN users
                    THEN [w EXCEPT !.pc = "unlock", !.seen = <<{users[id]}>>]
                    ELSE [w EXCEPT !.pc = "unlock", !.err = ErrNotFound(id)]]
    /\ UNCHANGED <<users, mu, created, outsideRepo>>

\* the deferred r.mu.Unlock() / r.mu.RUnlock(); the method returns
Unlock ==
    /\ \E p \in Workers :
          /\ worker[p].pc = "unlock"
          /\ mu' = IF worker[p].op \in WriteOps
                    THEN [mu EXCEPT !.writer = 0]
                    ELSE [mu EXCEPT !.readers = @ \ {p}]
          /\ worker' = [worker EXCEPT ![p] = IdleWorker]
    /\ UNCHANGED <<users, created, outsideRepo>>

\* the handler goroutines of the KYC service calling the repository
NextRepo ==
    \/ Call
    \/ Lock
    \/ RLock
    \/ Check
    \/ Store
    \/ StoreDone
    \/ RemoveEntry
    \/ ReadEntries
    \/ Unlock

SpecRepo == Init /\ [][NextRepo]_vars

(***************************************************************************)
(* Bridge: the dispatch loop with the order of its messages recorded       *)
(***************************************************************************)

\* the state in which main() enters its loop, both waits having succeeded
InitOrder ==
    /\ users \in InitialStores
    /\ actions = <<>>
    /\ pc = "poll"
    /\ msg = NoMessage
    /\ kafkaMsg = ZeroKafkaMessage
    /\ resp = NoExchange
    /\ processedEntity = ZeroUserData
    /\ err = <<>>
    /\ out = <<>>
    /\ produceErr = FALSE
    /\ backendCalls = 0
    /\ produceCalls = 0
    /\ url = DefaultSoapURL
    /\ clock = 0
    /\ kafkaReady = TRUE
    /\ soapReady = TRUE
    /\ probeStatus = 0
    /\ blocked = 0
    /\ pollErr = ""
    /\ lastFailures = {}
    /\ lastWrite = users
    /\ direct = NoDirect
    /\ wire = NoCall
    /\ late = {}
    /\ mu = Unlocked
    /\ worker = [p \in Workers |-> IdleWorker]
    /\ created = [id \in ClientIds |-> 0]
    /\ order = [on |-> TRUE, consumed |-> 0, handed |-> <<>>]

\* the for loop of main()
NextOrder ==
    \/ PollWait
    \/ PollError
    \/ Poll
    \/ DoRead
    \/ DoCreate
    \/ DoUpdate
    \/ DoDelete
    \/ DoUnknown
    \/ HandlerLookup
    \/ HandlerAnswer
    \/ HandlerLate
    \/ CallAnswered
    \/ CallRefused
    \/ CallStandIn
    \/ CallTimedOut
    \/ RespondError
    \/ RespondSuccess
    \/ Continue

SpecOrder == InitOrder /\ [][NextOrder]_vars

(***************************************************************************)
(* Bridge: the end of the process on a signal                              *)
(***************************************************************************)

\* SIGINT or SIGTERM reaches the process.  main() installs no handler (no
\* signal.Notify, no context that a signal cancels), so the Go runtime ends
\* the process at once, wherever main() is: also while the SOAP client
\* waits on a request, which the KYC service, a process of its own, goes on
\* to serve
Terminate ==
    /\ pc \notin {"exited", "killed"}
    /\ pc' = "killed"
    /\ UNCHANGED <<users, actions, lastWrite, msg, kafkaMsg, resp, processedEntity,
                   err, out, produceErr, backendCalls, produceCalls, startupVars, pollVars, sideVars>>

NextShutdown == Next \/ Terminate

\* the bridge in a run in which the process may be sent a signal
SpecShutdown == Init /\ [][NextShutdown]_vars

(***************************************************************************)
(* Properties                                                              *)
(***************************************************************************)

\* the process is in the dispatch loop
InLoop == pc \in {"poll", "dispatch", "await", "respond", "done"}

\* the process is in one of the two readiness waits
Waiting == pc \in {"waitKafka", "probeKafka", "metaKafka", "waitSoap", "probeSoap", "checkSoap"}

\* the iteration holds a message that json.Unmarshal accepted
Decoded == InLoop /\ pc # "poll" /\ msg.wf

\* the iteration has run to the end of the loop body
Finished == pc = "done"

\* the operation kind and correlation id as the requester wrote them
RequestedType == Field(msg.type)
RequestedCorrelationId == Field(msg.correlationId)

\* a message was handed to producer.Produce in this iteration
Produced == out # <<>>

Header(m) == m.headers[1]

\* the result was handed to the producer and Produce returned no error
Published == Produced /\ ~produceErr

\* the backend answered with an HTTP response
Answered == resp.transport = "ok"

Is2xx(code) == code >= 200 /\ code <= 299

TimeoutText == TransportCause("timeout")

NotFoundTexts == {"' not found", "' not found (simulated)"}

ContainsNotFound(m) == \E i \in 1..Len(m) : m[i] \in NotFoundTexts

\* C1: every message handed to the producer carries one correlationId
\* header, equal to the correlationId of the inbound message of the same
\* iteration, whatever the status of the result.
C1_CorrelationPreserved ==
    Produced =>
        /\ Decoded
        /\ Len(out[1].headers) = 1
        /\ Header(out[1]).key = "correlationId"
        /\ Header(out[1]).value = RequestedCorrelationId

C1_Witness ==
    /\ Finished /\ Published
    /\ RequestedCorrelationId = "c1"
    /\ Field(msg.clientId) = "a"
    /\ out[1].value.status = "Error"

\* C2: an inbound message that does not decode leads to no Produce call and
\* no backend request, and the iteration ends so that the loop polls again.
C2_MalformedDropped ==
    (InLoop /\ pc # "poll" /\ ~msg.wf) =>
        /\ Finished
        /\ ~Produced /\ produceCalls = 0
        /\ backendCalls = 0 /\ resp = NoExchange
        /\ ENABLED Continue

C2_Witness == Finished /\ msg = Garbage /\ ~Produced

\* C3: a decoded message whose kind is none of READ, CREATE, UPDATE, DELETE
\* (a missing kind included) causes no backend request, and its result,
\* handed to the producer, has status Error and the message's correlationId.
C3_UnknownKindIsError ==
    (Decoded /\ RequestedType \notin KnownTypes) =>
        /\ backendCalls = 0 /\ resp = NoExchange
        /\ pc \in {"respond", "done"} => err # <<>>
        /\ Finished =>
              /\ produceCalls = 1 /\ Produced
              /\ out[1].value.status = "Error"
              /\ Header(out[1]).value = RequestedCorrelationId

C3_Witness ==
    /\ Finished /\ Decoded /\ msg.type = Missing
    /\ Published /\ out[1].value.status = "Error"

\* the element the SOAP client reads the answer to a request of kind t from
ExpectedRoot(t) == IF t = "DELETE" THEN "DeleteKYCResponse" ELSE "KYCResponse"

\* a 200 answer to a request of kind t that is not a response of the KYC
\* contract: the body does not parse, or it parses but its element is not
\* the one of the operation, its Status is neither Success nor Error, or its
\* Risk is not a number
MalformedAnswer(t, body) ==
    \/ ~body.wf
    \/ body.root # ExpectedRoot(t)
    \/ body.status \notin {"Success", "Error"}
    \/ body.userData # <<>> /\ body.userData[1].risk = NaN

\* the backend step of the iteration failed: unknown kind, transport error,
\* HTTP status other than 200, or a malformed 200 answer
BackendStepFailed ==
    /\ Decoded /\ pc \in {"respond", "done"}
    /\ \/ RequestedType \notin KnownTypes
       \/ resp.transport \in CallErrors \cup BodyErrors
       \/ Answered /\ resp.code # StatusOK
       \/ Answered /\ resp.code = StatusOK
             /\ MalformedAnswer(RequestedType, resp.body)

\* C4: every failure of the backend step becomes an error value, and at the
\* end of the iteration exactly one Error result was handed to the producer.
C4_FailureBecomesErrorResult ==
    BackendStepFailed =>
        /\ err # <<>>
        /\ Finished =>
              /\ produceCalls = 1 /\ Produced
              /\ out[1].value.status = "Error"
              /\ "status" \in out[1].value.keys
              /\ Header(out[1]).value = RequestedCorrelationId
        /\ pc = "respond" => ENABLED RespondError

\* the result of the iteration can be serialised by json.Marshal
Marshalable == err # <<>> \/ processedEntity.risk # NaN

\* C5: every decoded request has, at the end of its iteration, been
\* dispatched with one backend request at most and had its one result handed
\* to the producer by exactly one Produce call - not by none, not by two.
C5_PublishedExactlyOnce ==
    (Finished /\ Decoded) =>
        /\ backendCalls <= 1
        /\ produceCalls = 1 /\ Produced

\* the KYC service answered that it does not hold the requested client
KycNotFoundAnswer ==
    /\ Answered /\ resp.code = StatusNotFound
    /\ resp.body = KYCResponseEnvelope("Error", ErrNotFound(kafkaMsg.clientId), <<>>)

\* C6: a READ of a client the KYC service does not hold ends with an Error
\* result handed to the producer whose message contains "not found" and the
\* requested client id.
C6_ReadNotFoundMessage ==
    (Finished /\ Decoded /\ RequestedType = "READ" /\ KycNotFoundAnswer) =>
        /\ Produced
        /\ out[1].value.status = "Error"
        /\ ContainsNotFound(out[1].value.message)
        /\ Contains(out[1].value.message, kafkaMsg.clientId)

\* the backend answered 2xx with a body of the operation's kind that
\* reports Status=Error
BusinessErrorAnswer ==
    /\ Answered /\ Is2xx(resp.code) /\ resp.body.wf
    /\ resp.body.status = "Error"
    /\ resp.body.root = (IF RequestedType = "DELETE" THEN "DeleteKYCResponse"
                         ELSE "KYCResponse")

\* C7: for each of the four kinds, a 2xx answer whose body reports an error
\* ends with a result of status Error whose message is the backend's message.
C7_BusinessErrorPassedThrough ==
    (Finished /\ Decoded /\ RequestedType \in KnownTypes /\ BusinessErrorAnswer) =>
        /\ Produced
        /\ out[1].value.status = "Error"
        /\ out[1].value.message = resp.body.message

\* the backend call ran into the client timeout, or was answered 408
TimedOut ==
    \/ resp.transport \in TimeoutErrors
    \/ Answered /\ resp.code = StatusRequestTimeout

\* C8: a backend call that times out (or is answered 408) ends with an Error
\* result handed to the producer, with the request's correlationId and a
\* message that names the timeout or the status code; the loop then goes on.
C8_TimeoutBecomesErrorResult ==
    (Finished /\ Decoded /\ TimedOut) =>
        /\ produceCalls = 1 /\ Produced
        /\ out[1].value.status = "Error"
        /\ Header(out[1]).value = RequestedCorrelationId
        /\ \/ \E t \in TimeoutErrors : Contains(out[1].value.message, TransportCause(t))
           \/ Contains(out[1].value.message, Itoa(StatusRequestTimeout))
        /\ ENABLED Continue

C8_Witness ==
    /\ Finished /\ Decoded /\ RequestedType = "READ"
    /\ resp.transport = "timeout"
    /\ Published /\ Contains(out[1].value.message, TimeoutText)

\* the SOAP client classified the answer as an HTTP error
HttpError == err = <<"SOAP service returned non-OK status: ", Itoa(resp.code)>>

\* C9 as stated: an answer is classified as an HTTP error exactly when its
\* status is not 2xx.
C9_ErrorIffNon2xx ==
    (Decoded /\ pc \in {"respond", "done"} /\ Answered) =>
        (HttpError <=> ~Is2xx(resp.code))

\* C9 amended: an answer is classified as an HTTP error exactly when its
\* status is not 200, and then the result handed to the producer has status
\* Error and the status code in its message.
C9_ErrorIffNot200 ==
    (Decoded /\ pc \in {"respond", "done"} /\ Answered) =>
        /\ HttpError <=> resp.code # StatusOK
        /\ (HttpError /\ Finished) =>
              /\ produceCalls = 1 /\ Produced
              /\ out[1].value.status = "Error"
              /\ Contains(out[1].value.message, Itoa(resp.code))

C9_Witness ==
    /\ Finished /\ Decoded /\ Answered
    /\ resp.code = StatusInternalServerError
    /\ Published /\ Contains(out[1].value.message, "500")

\* the backend answered Read, Create or Update with a success body that
\* carries a UserData element
SuccessAnswer ==
    /\ RequestedType \in {"READ", "CREATE", "UPDATE"}
    /\ Answered /\ resp.body.wf /\ resp.body.root = "KYCResponse"
    /\ resp.body.status = "Success" /\ resp.body.userData # <<>>

\* the result handed to the producer is Success with the backend's values
CopiesPayload ==
    /\ out[1].value.status = "Success"
    /\ out[1].value.clientId = resp.body.userData[1].clientId
    /\ out[1].value.risk = resp.body.userData[1].risk
    /\ out[1].value.message = resp.body.message

\* C10 as stated: a 2xx answer with a success body ends with a published
\* Success result carrying the backend's clientId, risk and message.
C10_SuccessCopiesPayload2xx ==
    (Finished /\ Decoded /\ SuccessAnswer /\ Is2xx(resp.code) /\ Published) =>
        CopiesPayload

\* C10 amended: a 200 answer with a success body ends with one result
\* handed to the producer (none when the risk is not a finite number), and
\* that result is Success with the backend's clientId, risk and message.
C10_SuccessCopiesPayload ==
    (Finished /\ Decoded /\ SuccessAnswer /\ resp.code = StatusOK) =>
        /\ Produced <=> resp.body.userData[1].risk # NaN
        /\ Produced => CopiesPayload

C10_Witness ==
    /\ Finished /\ Decoded /\ RequestedType = "CREATE"
    /\ SuccessAnswer /\ resp.code = StatusOK
    /\ msg.userData # <<>> /\ msg.userData[1].risk # resp.body.userData[1].risk
    /\ Published /\ out[1].value.risk = resp.body.userData[1].risk

(***************************************************************************)
(* DELETE results                                                          *)
(***************************************************************************)

\* the value of the message handed to producer.Produce
Value == out[1].value

\* C11: every result produced for a DELETE request carries no subject data:
\* its risk is the zero value whatever risk the subject is stored with, and
\* its status is Success or Error, never the status of the subject.
C11_DeleteCarriesNoPayload ==
    (Finished /\ kafkaMsg.type = "DELETE" /\ Produced)
        => /\ Value.risk = 0
           /\ Value.clientId = kafkaMsg.clientId
           /\ Value.status \in {"Success", "Error"}
           /\ Value.keys \subseteq {"XMLName", "clientId", "risk", "status", "message"}

\* the subject stored with risk 0.15 was deleted and the result is out
C11_Witness ==
    /\ Finished /\ kafkaMsg.type = "DELETE" /\ kafkaMsg.clientId = "a"
    /\ "a" \notin DOMAIN users
    /\ Published /\ Value.status = "Success" /\ Value.risk = 0

\* the answer of the KYC service to the DeleteKYC of a subject it holds
DeletedAnswer ==
    Exchange("ok", StatusOK, DeleteKYCResponseEnvelope("Success", <<"User deleted">>))

\* C12: the KYC service answers the DeleteKYC of a subject it holds with
\* "User deleted", the subject being gone from then on; the bridge takes that
\* answer as it was written, and the result published for it has status
\* Success and message "User deleted".
C12_DeleteExistingSucceeds ==
    /\ [][(/\ wire.stage = "sent" /\ wire'.stage = "answered"
           /\ wire.req.root = "DeleteKYC" /\ wire.req.clientId \in DOMAIN users)
            => /\ Exchange("ok", wire'.code, wire'.body) = DeletedAnswer
               /\ wire.req.clientId \notin DOMAIN users']_vars
    /\ [][(/\ pc = "await" /\ pc' = "respond" /\ kafkaMsg.type = "DELETE"
           /\ wire.stage = "answered" /\ resp'.transport = "ok")
            => /\ wire.req = DeleteKYCRequest(kafkaMsg.clientId)
               /\ resp' = Exchange("ok", wire.code, wire.body)
               /\ resp' = DeletedAnswer => err' = <<>>]_vars
    /\ [](Finished /\ kafkaMsg.type = "DELETE" /\ resp = DeletedAnswer
            => /\ err = <<>> /\ produceCalls = 1
               /\ Value = Marshal(UserData(kafkaMsg.clientId, 0, "Success",
                                           <<"User deleted">>)).value
               /\ Header(out[1]).value = kafkaMsg.correlationId)

\* subject "a" existed, the service deleted it, the Success result is out
C12_Witness ==
    /\ Finished /\ kafkaMsg.type = "DELETE" /\ kafkaMsg.clientId = "a"
    /\ resp = DeletedAnswer /\ "a" \notin DOMAIN users
    /\ Published /\ Value.status = "Success" /\ Value.message = <<"User deleted">>

(***************************************************************************)
(* Startup                                                                 *)
(***************************************************************************)

\* nothing was read from the receive topic, sent to the backend or produced
NothingConsumed ==
    /\ msg = NoMessage /\ kafkaMsg = ZeroKafkaMessage /\ resp = NoExchange
    /\ out = <<>> /\ backendCalls = 0 /\ produceCalls = 0

\* C13: the dispatch loop is entered only after both readiness waits have
\* returned success; until then no message is consumed; a wait whose deadline
\* has passed at its loop test makes the process exit, and an exited process
\* never polls.
C13_LoopOnlyWhenReady ==
    /\ InLoop => kafkaReady /\ soapReady
    /\ ~(kafkaReady /\ soapReady) => NothingConsumed
    /\ (pc = "waitKafka" /\ clock >= StartupTimeout)
          => ENABLED KafkaTimeout /\ ~ENABLED KafkaDial
    /\ (pc = "waitSoap" /\ clock >= StartupTimeout)
          => ENABLED SoapTimeout /\ ~ENABLED SoapProbe
    /\ pc = "exited" => NothingConsumed /\ ~ENABLED Poll /\ ~(kafkaReady /\ soapReady)

\* the broker was ready, the backend was not within its deadline: exited
C13_Witness ==
    pc = "exited" /\ kafkaReady /\ ~soapReady /\ clock >= StartupTimeout

\* C14: a readiness wait probes again after a failed probe as long as its
\* deadline has not passed, returns success exactly on a successful probe
\* (for the backend: one answered with 200 or 405), returns its timed-out
\* error only once the deadline has passed, and after that never succeeds;
\* an invalid address never succeeds.
C14_WaitRetriesUntilReadyOrDeadline ==
    /\ [][pc = "checkSoap" /\ pc' # pc
            => IF probeStatus \in {StatusOK, StatusMethodNotAllowed}
               THEN pc' = "poll" /\ soapReady'
               ELSE pc' = "waitSoap" /\ ~soapReady']_vars
    /\ [][pc = "probeSoap" /\ pc' # pc
            => pc' \in {"checkSoap", "waitSoap"} /\ ~soapReady']_vars
    /\ [][pc = "probeKafka" /\ pc' # pc
            => pc' \in {"metaKafka", "waitKafka"} /\ ~kafkaReady']_vars
    /\ [][pc = "metaKafka" /\ pc' # pc
            => \/ pc' = "waitSoap" /\ kafkaReady'
               \/ pc' = "waitKafka" /\ ~kafkaReady']_vars
    /\ [][pc' = "exited" /\ pc # "exited"
            => pc \in {"waitKafka", "waitSoap"} /\ clock >= StartupTimeout]_vars
    /\ [][pc = "exited" => pc' = "exited" /\ UNCHANGED <<kafkaReady, soapReady>>]_vars
    /\ []((pc = "waitKafka" /\ clock < StartupTimeout)
            => ENABLED KafkaDial /\ ~ENABLED KafkaTimeout)
    /\ []((pc = "waitSoap" /\ clock < StartupTimeout)
            => ENABLED SoapProbe /\ ~ENABLED SoapTimeout)
    /\ [](url = InvalidURL => ~soapReady)

\* an earlier probe failed and was slept on, this one is answered with 405
C14_Witness ==
    /\ pc = "checkSoap" /\ probeStatus = StatusMethodNotAllowed
    /\ clock > blocked /\ clock < StartupTimeout

\* C15: no probe is in flight for longer than its sub-timeout of 5 seconds,
\* so no readiness wait is still running 5 seconds after its deadline.
C15_ProbesBounded ==
    /\ pc \in {"probeKafka", "metaKafka", "probeSoap"} => blocked <= DialTimeout
    /\ Waiting => clock <= StartupTimeout + DialTimeout

(***************************************************************************)
(* The dispatch loop as a whole                                            *)
(***************************************************************************)

\* C16: a message is taken from the consumer only when the loop is at its
\* poll with nothing of an earlier message pending and no backend call
\* awaited; the SOAP client waits on a request only between the dispatch
\* and the handling of its result; and per message at most one backend
\* request and at most one Produce call are made.
C16_OneMessageAtATime ==
    /\ [][msg' # msg /\ msg' # NoMessage
            => /\ pc = "poll" /\ msg = NoMessage
               /\ resp = NoExchange /\ out = <<>>
               /\ backendCalls = 0 /\ produceCalls = 0
               /\ wire = NoCall]_vars
    /\ [](backendCalls <= 1 /\ produceCalls <= 1)
    /\ [](pc = "poll" => NothingConsumed)
    /\ [](wire # NoCall <=> pc = "await")
    /\ [](pc \in {"dispatch", "await"} => resp = NoExchange /\ out = <<>>)
    /\ [](pc = "respond" => out = <<>>)

\* an earlier message was handled to its end (the repository shows its
\* effect); the backend call of the message at hand is done, its publish not
C16_Witness ==
    /\ pc = "respond" /\ kafkaMsg.type = "READ" /\ backendCalls = 1
    /\ "b" \in DOMAIN users /\ out = <<>>

\* C17: whatever failed for a message - decoding, the kind, the backend
\* call, the serialization of the result, the publish - the iteration ends
\* at the next poll: the loop is never left and the process does not exit.
C17_FailureNeverEndsLoop ==
    /\ [][InLoop => InLoop']_vars
    /\ [][pc = "done" /\ pc' # pc => pc' = "poll" /\ lastFailures' = Failures]_vars
    /\ [](pc = "done" => ENABLED Continue)
    /\ [](lastFailures # {} => pc = "poll" /\ ENABLED Poll)

\* the iteration before failed at the backend and at the publish, and the
\* loop is at its poll
C17_Witness ==
    pc = "poll" /\ lastFailures = {"backend", "publish"}

\* C18: once consumer.ReadMessage has reported that the reader is closed,
\* the loop is no longer at its poll.
C18_StopsOnConsumerError ==
    pollErr = "EOF" => pc # "poll" /\ ~ENABLED Poll /\ ~ENABLED PollError

\* C19: no call the loop is suspended in lasts longer than the longest
\* timeout the bridge sets (that of the backend call).
C19_SuspensionsBounded ==
    InLoop => blocked <= ClientTimeout

\* C20: a failed Produce call is the only one made for its result, and the
\* iteration ends at the next poll with neither the result nor the inbound
\* message kept; the bridge writes to the response topic only.
C20_PublishFailureOnlyLogged ==
    /\ []((Finished /\ produceErr)
            => produceCalls = 1 /\ backendCalls <= 1
               /\ ENABLED Continue)
    /\ [][pc = "done" /\ pc' # pc
            => pc' = "poll" /\ msg' = NoMessage /\ out' = <<>>
               /\ produceCalls' = 0 /\ ~produceErr']_vars
    /\ [][produceCalls' > produceCalls => pc = "respond" /\ produceCalls = 0]_vars
    /\ [](Produced => out[1].topic = KafkaResponseTopic)
    /\ [](pc = "poll" => NothingConsumed /\ ~produceErr)

\* the publish of the iteration before failed; the loop is at its poll and
\* holds nothing of that message
C20_Witness ==
    pc = "poll" /\ "publish" \in lastFailures /\ NothingConsumed

(***************************************************************************)
(* What a requester observes                                               *)
(***************************************************************************)

\* C21: at the end of the iteration of a decoded request either its result
\* was handed to the producer without error, under the request's
\* correlationId, or the one Produce call of the result failed: a decoded
\* request gets no response only when the publish failed.
C21_DroppedOnlyOnPublishFailure ==
    (Finished /\ Decoded) =>
        \/ /\ Published /\ produceCalls = 1
           /\ Header(out[1]).value = RequestedCorrelationId
        \/ /\ produceCalls = 1 /\ produceErr

\* the backend call of the iteration failed below HTTP: no connection, or the
\* client timeout
TransportFailed == resp.transport \in CallErrors \cup BodyErrors

\* C22 as stated: a request whose backend call failed at the transport level
\* has no result handed to the producer.
C22_TransportErrorNeverPublished ==
    (Finished /\ Decoded /\ TransportFailed) => ~Produced /\ produceCalls = 0

\* C22 amended: a consumer error publishes nothing and the loop polls again;
\* a backend transport error is not retried (one backend request) and becomes
\* one Error result, with the request's correlationId and the cause in its
\* message, handed to the producer once.
C22_TransportErrorPublishedAsError ==
    /\ [][pollErr' # "" /\ pollErr' # pollErr
            => pc = "poll" /\ pc' = "poll" /\ UNCHANGED <<out, produceCalls, backendCalls>>]_vars
    /\ [](pollErr # "" => pc = "poll" /\ NothingConsumed /\ ENABLED Poll)
    /\ []((Decoded /\ pc \in {"respond", "done"} /\ TransportFailed)
            => /\ backendCalls = 1
               /\ err = <<IF resp.transport \in CallErrors
                           THEN "failed to call SOAP service: "
                           ELSE "failed to read SOAP response body: ",
                           TransportCause(resp.transport)>>
               /\ Finished =>
                     /\ produceCalls = 1 /\ Produced
                     /\ Value.status = "Error"
                     /\ Header(out[1]).value = RequestedCorrelationId
                     /\ Contains(Value.message, TransportCause(resp.transport)))

\* the backend was unreachable for a CREATE and the Error result is out
C22_Witness ==
    /\ Finished /\ Decoded /\ RequestedType = "CREATE"
    /\ resp.transport = "refused"
    /\ Published /\ Value.status = "Error"
    /\ Contains(Value.message, "connect: connection refused")

(***************************************************************************)
(* Shutdown                                                                *)
(***************************************************************************)

\* a backend request was sent in this iteration and main() has not got its
\* answer or its error
CallInFlight == backendCalls = 1 /\ resp = NoExchange

\* the iteration has a backend answer and has not yet dealt with it
HandlingPending == backendCalls = 1 /\ resp # NoExchange /\ produceCalls = 0 /\ Marshalable

\* C23: the process never ends on a signal with a backend call in flight, or
\* with the answer of a call not yet handled.
C23_ShutdownSparesIssuedCall ==
    pc = "killed" => ~CallInFlight /\ ~HandlingPending

(***************************************************************************)
(* Invariants of the published result and of the request                   *)
(***************************************************************************)

\* the UserData element of the backend's answer, when the answer is a
\* KYCResponse that has one
AnswerHasUserData ==
    /\ Answered /\ resp.body.wf /\ resp.body.root = "KYCResponse"
    /\ resp.body.userData # <<>>

\* the result carries the clientId and risk of the backend's UserData
CarriesPayload ==
    /\ AnswerHasUserData
    /\ Value.clientId = resp.body.userData[1].clientId
    /\ Value.risk = resp.body.userData[1].risk

\* the result carries nothing of a subject: the zero risk, and no clientId
\* but the one the request named
CarriesNoPayload ==
    /\ Value.risk = 0
    /\ Value.clientId \in {"", kafkaMsg.clientId}

\* C24 as stated: a result with status Error carries no subject payload; a
\* result with status Success for a Read, Create or Update carries the
\* backend's clientId and risk.
C24_PayloadInvariant ==
    (Finished /\ Decoded /\ Produced) =>
        /\ Value.status = "Error" => CarriesNoPayload
        /\ (Value.status = "Success" /\ RequestedType \in {"READ", "CREATE", "UPDATE"})
              => CarriesPayload

\* C24 amended: a result of the bridge's own failure path is Error with the
\* request's clientId and risk 0; a Create or Update result outside that
\* path carries the backend's UserData; a Read result has the backend's
\* status and message as sent, with the backend's UserData exactly when the
\* answer has one, whatever the status, and else risk 0 with the requested
\* clientId for status Error and an empty clientId for any other status.
C24_PayloadFollowsBackendAnswer ==
    (Finished /\ Decoded /\ Produced) =>
        /\ err # <<>>
              => Value.status = "Error" /\ Value.risk = 0
                 /\ Value.clientId = kafkaMsg.clientId
        /\ (err = <<>> /\ RequestedType \in {"CREATE", "UPDATE"})
              => CarriesPayload /\ Value.status = resp.body.status
        /\ (RequestedType = "READ" /\ Answered /\ resp.code = StatusOK /\ resp.body.wf)
              => /\ err = <<>>
                 /\ IF resp.body.root = "KYCResponse"
                    THEN Value.status = resp.body.status
                         /\ Value.message = resp.body.message
                    ELSE Value.status = "" /\ Value.message = <<>>
                 /\ IF AnswerHasUserData
                    THEN CarriesPayload
                    ELSE /\ Value.risk = 0
                         /\ Value.clientId = (IF Value.status = "Error"
                                              THEN kafkaMsg.clientId ELSE "")

\* a Read answered 200 with status Success and no UserData element: the
\* Success result is out, with an empty clientId and the zero risk
C24_Witness ==
    /\ Finished /\ Decoded /\ RequestedType = "READ" /\ kafkaMsg.clientId = "a"
    /\ Answered /\ resp.code = StatusOK /\ resp.body.root = "KYCResponse"
    /\ resp.body.status = "Success" /\ resp.body.userData = <<>>
    /\ Published /\ Value.status = "Success" /\ Value.clientId = "" /\ Value.risk = 0

\* C25: the status of every result handed to the producer is "Success" or
\* "Error", and the status key is in the JSON object.
C25_StatusIsSuccessOrError ==
    Produced => Value.status \in {"Success", "Error"} /\ "status" \in Value.keys

\* the subject a request names: for CREATE and UPDATE the clientId of
\* userData, or else the clientId of the message
SubjectId(m) ==
    IF m.type \in {"CREATE", "UPDATE"} THEN WithClientID(m).userData.clientId
    ELSE m.clientId

\* C26: a request for which the backend was called has a non-empty
\* correlationId, names a subject when its kind is READ, UPDATE or DELETE,
\* and has a userData object when its kind is CREATE or UPDATE.
C26_RequestInvariant ==
    (Decoded /\ backendCalls = 1) =>
        /\ kafkaMsg.correlationId # ""
        /\ kafkaMsg.type \in {"READ", "UPDATE", "DELETE"} => SubjectId(kafkaMsg) # ""
        /\ kafkaMsg.type \in {"CREATE", "UPDATE"} => msg.userData # <<>>

(***************************************************************************)
(* Statelessness                                                           *)
(***************************************************************************)

\* what the SOAP client call of the kind of m makes of the exchange r
OutcomeOf(m, r) ==
    CASE m.type = "READ"   -> ReadKYC(m.clientId, r)
      [] m.type = "CREATE" -> CreateKYC(WithClientID(m).userData, r)
      [] m.type = "UPDATE" -> UpdateKYC(WithClientID(m).userData, r)
      [] m.type = "DELETE" ->
            ClientResult(IF DeleteKYC(m.clientId, r).err = <<>>
                         THEN DeleteEntity(m, DeleteKYC(m.clientId, r).message)
                         ELSE ZeroUserData,
                         DeleteKYC(m.clientId, r).err)
      [] OTHER -> ClientResult(ZeroUserData, <<"unknown Kafka message type: ", m.type>>)

\* the message to publish for the inbound bytes raw and the exchange r
ResultOf(raw, r) ==
    LET m == Unmarshal(raw).kafkaMsg
        o == OutcomeOf(m, r)
    IN  Message(KafkaResponseTopic,
                Marshal(IF o.err # <<>> THEN ErrorEntity(m, o.err) ELSE o.entity).value,
                m.correlationId)

\* no local of an iteration holds a value
NoRequestState ==
    /\ NothingConsumed
    /\ processedEntity = ZeroUserData /\ err = <<>>
    /\ ~produceErr

\* C27: between two messages the loop holds nothing of a request; a message
\* is decoded into a fresh value; and the result handed to the producer, like
\* the number of backend requests, is determined by the inbound message and
\* the backend's answer to it alone.
C27_StatelessBetweenMessages ==
    /\ [](pc = "poll" => NoRequestState)
    /\ [][pc = "poll" /\ pc' # "poll"
            => kafkaMsg' = Unmarshal(msg').kafkaMsg]_vars
    /\ []((Finished /\ Decoded)
            => /\ backendCalls = (IF Field(msg.type) \in KnownTypes THEN 1 ELSE 0)
               /\ Produced => out[1] = ResultOf(msg, resp))

\* an earlier message changed the repository; the result of the READ at hand
\* is out
C27_Witness ==
    /\ Finished /\ Decoded /\ RequestedType = "READ" /\ Answered
    /\ "b" \in DOMAIN users /\ Published

(***************************************************************************)
(* Topics                                                                  *)
(***************************************************************************)

\* the topics of the README and of the end-to-end tests
DocumentedReceiveTopic == "Receive"
DocumentedResponseTopic == "Response"

\* C28: the loop reads from the topic "Receive", and every message handed to
\* the producer is addressed to the topic "Response".
C28_TopicsOfTheTests ==
    /\ InLoop => KafkaReceiveTopic = DocumentedReceiveTopic
    /\ Produced => out[1].topic = DocumentedResponseTopic

(***************************************************************************)
(* KYC repository                                                          *)
(***************************************************************************)

\* the client ids and the records the repository is asked about
RepoIds == ClientIds \cup {""}
RepoRecords == {UserData(id, r, "", <<>>) : id \in RepoIds, r \in {0, 10}}

\* the handler of the KYC service answers the request the SOAP client waits
\* on in this step
ServedByKyc == wire.stage \in {"sent", "looked"} /\ wire'.stage = "answered"

\* the subject the request req names
SubjectOf(req) ==
    IF req.root \in {"CreateKYC", "UpdateKYC"} THEN req.userData.clientId
    ELSE req.clientId

\* C29: on every store the service reaches, Create of a held id fails with
\* "already exists", Update and Delete of an absent id fail with "not found",
\* and each leaves the store as it was; a write the service answers with
\* such an error changed nothing in the store.
C29_FailedWriteLeavesStore ==
    /\ [](\A ud \in RepoRecords :
            /\ ud.clientId \in DOMAIN users
                  => /\ Create(users, ud).users = users
                     /\ Create(users, ud).err = ErrAlreadyExists(ud.clientId)
                     /\ Contains(Create(users, ud).err, "' already exists")
            /\ ud.clientId \notin DOMAIN users
                  => /\ Update(users, ud).users = users
                     /\ Update(users, ud).err = ErrNotFound(ud.clientId)
                     /\ Delete(users, ud.clientId).users = users
                     /\ Delete(users, ud.clientId).err = ErrNotFound(ud.clientId)
                     /\ Contains(ErrNotFound(ud.clientId), "' not found"))
    /\ [][(ServedByKyc /\ wire.req.root = "CreateKYC" /\ wire'.code # StatusOK)
            => /\ users' = users /\ SubjectOf(wire.req) \in DOMAIN users
               /\ wire'.code = StatusConflict
               /\ wire'.body.message = ErrAlreadyExists(SubjectOf(wire.req))]_vars
    /\ [][(/\ ServedByKyc /\ wire.req.root \in {"UpdateKYC", "DeleteKYC"}
           /\ wire'.code # StatusOK)
            => /\ users' = users /\ SubjectOf(wire.req) \notin DOMAIN users
               /\ wire'.code = StatusNotFound
               /\ wire'.body.message = ErrNotFound(SubjectOf(wire.req))]_vars
    /\ [][(pc = "await" /\ pc' = "respond" /\ wire.stage = "answered"
           /\ resp'.transport = "ok")
            => resp'.code = wire.code /\ resp'.body = wire.body]_vars

\* an UPDATE of the absent "b" was answered "not found": no "b" in the store
C29_Witness ==
    /\ Finished /\ Decoded /\ RequestedType = "UPDATE" /\ SubjectId(kafkaMsg) = "b"
    /\ Answered /\ resp.code = StatusNotFound
    /\ resp.body.message = ErrNotFound("b")
    /\ "b" \notin DOMAIN users

\* C30: in every state the service reaches, Read(id) returns the record of
\* the latest write of id the service reported done when no later delete it
\* reported done removed it, and the not-found error otherwise; the answer
\* of the service to a READ says the same.
C30_ReadReturnsLatestWrite ==
    /\ [](\A id \in RepoIds :
            Read(users, id) = IF id \in DOMAIN lastWrite
                              THEN [user |-> lastWrite[id], err |-> <<>>]
                              ELSE [user |-> ZeroUserData, err |-> ErrNotFound(id)])
    /\ [][(ServedByKyc /\ wire.req.root = "KYCQuery" /\ ~wire.seen.exists)
            => IF wire.req.clientId \in DOMAIN lastWrite
               THEN /\ wire'.code = StatusOK
                    /\ wire'.body.userData = <<lastWrite[wire.req.clientId]>>
               ELSE /\ wire'.code = StatusNotFound
                    /\ wire'.body.message = ErrNotFound(wire.req.clientId)
                    /\ wire'.body.userData = <<>>]_vars

\* "b" was created and "a", loaded at the start, was deleted since: the READ
\* of "a" is answered "not found"
C30_Witness ==
    /\ Finished /\ Decoded /\ RequestedType = "READ" /\ kafkaMsg.clientId = "a"
    /\ "a" \notin DOMAIN lastWrite /\ "b" \in DOMAIN lastWrite
    /\ Answered /\ resp.code = StatusNotFound /\ resp.body.message = ErrNotFound("a")

\* C34: a result of status Success is published only when the backend
\* answered the call of that request with a body reporting Success, whatever
\* the kind of the request.
C34_SuccessOnlyOnBackendSuccess ==
    (Produced /\ Value.status = "Success") =>
        /\ Answered /\ Is2xx(resp.code) /\ resp.body.wf
        /\ resp.body.status = "Success"

\* the call of the request at hand failed: no answer, or an error returned
\* by the SOAP client
CallFailed == pc \in {"respond", "done"} /\ (resp.transport # "ok" \/ err # <<>>)

\* C35: per consumed message one request at most is sent to the backend, in
\* the one step that starts the call; the KYC service holds no request but
\* those sent, a request it holds leaves it only by being served, and it
\* serves each once, so a write changes the store at most once per message,
\* be it after the SOAP client gave up waiting; after a call that failed or
\* timed out the loop never goes back to the dispatch of that message and
\* sends nothing more for it.
C35_AtMostOneBackendRequest ==
    /\ [][backendCalls' # backendCalls /\ backendCalls' # 0
            => /\ pc = "dispatch" /\ pc' = "await"
               /\ backendCalls = 0 /\ backendCalls' = 1]_vars
    /\ [][(wire'.stage = "sent" /\ wire.stage # "sent")
            => /\ pc = "dispatch" /\ wire = NoCall
               /\ backendCalls = 0 /\ backendCalls' = 1]_vars
    /\ [][late' # late
            => \/ \E req \in late :
                     /\ late' = late \ {req} /\ wire' = wire
                     /\ users' = Handled(users, NoCall.seen, req).users
               \/ /\ pc = "await" /\ pc' = "respond" /\ wire.stage = "sent"
                  /\ wire.req \notin late
                  /\ late' = late \cup {wire.req} /\ wire' = NoCall]_vars
    /\ [][(pc = "dispatch" /\ pc' = "await") => late' = late]_vars
    /\ [](\A req \in late : req.root \in WriteRoots)
    /\ [][users' # users
            => \/ ServedByKyc /\ wire.req.root \in WriteRoots /\ late' = late
               \/ \E req \in late : late' = late \ {req} /\ wire' = wire]_vars
    /\ [][CallFailed
            => /\ pc' \notin {"dispatch", "await"}
               /\ wire' = NoCall
               /\ backendCalls' \in {backendCalls, 0}
               /\ resp' \in {resp, NoExchange}]_vars

\* a CREATE ran into the client timeout after the service had stored the
\* record; the loop went on to its error result with the one call made
C35_Witness ==
    /\ Finished /\ RequestedType = "CREATE" /\ resp.transport = "timeout"
    /\ backendCalls = 1 /\ err # <<>>
    /\ "b" \in DOMAIN users

\* the clientId inside the userData object of the inbound bytes ("" when the
\* object or the key is absent) and the top-level clientId of the bytes
InnerClientId == IF msg.userData = <<>> THEN "" ELSE Field(msg.userData[1].clientId)
OuterClientId == Field(msg.clientId)

\* C39: for CREATE and UPDATE the record sent to the backend carries the
\* clientId of userData when that is non-empty and the top-level clientId
\* otherwise; the record the KYC service stores and answers with is filed
\* under the id of the record sent, so a top-level clientId never replaces a
\* non-empty userData.clientId.
C39_SubjectIdOfCreateUpdate ==
    /\ [][(pc = "dispatch" /\ pc' = "await" /\ kafkaMsg.type \in {"CREATE", "UPDATE"})
            => LET subject == IF InnerClientId # "" THEN InnerClientId
                              ELSE OuterClientId
               IN  /\ kafkaMsg'.userData.clientId = subject
                   /\ kafkaMsg'.clientId = OuterClientId
                   /\ wire'.req.root = (IF kafkaMsg.type = "CREATE" THEN "CreateKYC"
                                        ELSE "UpdateKYC")
                   /\ wire'.req.userData.clientId = subject]_vars
    /\ [][(/\ ServedByKyc /\ wire.req.root \in {"CreateKYC", "UpdateKYC"}
           /\ wire'.code = StatusOK)
            => LET subject == wire.req.userData.clientId
               IN  /\ subject \in DOMAIN users'
                   /\ users'[subject].clientId = subject
                   /\ wire'.body.userData # <<>>
                   /\ wire'.body.userData[1].clientId = subject
                   /\ \A id \in DOMAIN users' \ {subject} :
                         id \in DOMAIN users /\ users'[id] = users[id]]_vars

\* a CREATE naming "a" at top level and "b" inside userData created "b"
C39_Witness ==
    /\ Finished /\ RequestedType = "CREATE"
    /\ OuterClientId = "a" /\ InnerClientId = "b"
    /\ Answered /\ resp.code = StatusOK /\ resp.body.message = <<"User created">>
    /\ "b" \in DOMAIN users /\ users["b"].clientId = "b"
    /\ Published /\ Value.clientId = "b"

\* C38: a published result of status Error carries as clientId the subject
\* the request named: for CREATE and UPDATE the clientId of userData, or
\* else the top-level clientId; for READ and DELETE the top-level clientId.
C38_ErrorNamesSubject ==
    (Published /\ Decoded /\ RequestedType \in KnownTypes /\ Value.status = "Error") =>
        Value.clientId = (IF RequestedType \in {"CREATE", "UPDATE"} /\ InnerClientId # ""
                          THEN InnerClientId ELSE OuterClientId)

\* C37: results are handed to the writer in the order their requests were
\* consumed: the numbers of the messages whose result was handed over
\* increase strictly, each hand-over is the result of the message consumed
\* last (it carries that message's correlationId), and a Produce call that
\* returns without error has handed the result over before the loop goes on.
C37_PublishedInConsumptionOrder ==
    /\ [](\A i, j \in DOMAIN order.handed :
            i < j => order.handed[i] < order.handed[j])
    /\ [](\A i \in DOMAIN order.handed : order.handed[i] \in 1..order.consumed)
    /\ [][order'.handed # order.handed
            => /\ order'.handed = Append(order.handed, order.consumed)
               /\ order'.consumed = order.consumed
               /\ Header(out'[1]).value = Field(msg.correlationId)]_vars
    /\ [][(produceCalls' > produceCalls /\ ~produceErr')
            => order'.handed = Append(order.handed, order.consumed)]_vars
    /\ [][order'.consumed # order.consumed
            => order'.consumed = order.consumed + 1 /\ pc = "poll" /\ out = <<>>]_vars

\* three messages were consumed; the results of the first and the third
\* were handed over, the Produce call of the second failed
C37_Witness ==
    /\ order.consumed = 3 /\ order.handed = <<1, 3>>
    /\ Finished /\ Published

(***************************************************************************)
(* The KYC service seen by its clients                                     *)
(***************************************************************************)

\* the SOAP endpoint wrote its answer to a request of a client in this step
Served == direct'.n # direct.n

\* the statuses and effects of the POST answered in this step, by the
\* outcome of the operation it names on the store as it is when the
\* operation is made.  aware: a KYCQuery that found an action override for
\* its id is left to the override
PostOutcome(aware) ==
    LET d == direct'
        req == d.req
        id == IF req.root \in {"CreateKYC", "UpdateKYC"} THEN req.userData.clientId
              ELSE req.clientId
        held == id \in DOMAIN users
        overridden == req.root = "KYCQuery" /\ direct.flight.seen.exists
        invalid == \/ req.root \notin {"KYCQuery", "CreateKYC", "UpdateKYC", "DeleteKYC"}
                   \/ req.space # KycNamespace
                   \/ /\ req.root \in {"CreateKYC", "UpdateKYC"}
                      /\ req.userData.risk = BadFloat
        succeeds == ~invalid /\ ~overridden /\ (req.root = "CreateKYC" <=> ~held)
    IN  /\ invalid => d.code = StatusBadRequest
        /\ (~invalid /\ req.root = "CreateKYC" /\ held)
              => d.code = StatusConflict /\ d.body.status = "Error"
        /\ (~invalid /\ req.root # "CreateKYC" /\ ~held /\ (aware => ~overridden))
              => d.code = StatusNotFound /\ d.body.status = "Error"
        /\ succeeds <=> d.code = StatusOK
        /\ d.code = StatusOK =>
              /\ d.body.status = "Success"
              /\ req.root = "KYCQuery" =>
                    users' = users /\ d.body.userData = <<users[id]>>
              /\ req.root \in {"CreateKYC", "UpdateKYC"} =>
                    /\ DOMAIN users' = DOMAIN users \cup {id}
                    /\ users'[id] = Named(req.userData)
                    /\ \A k \in DOMAIN users \ {id} : users'[k] = users[k]
              /\ req.root = "DeleteKYC" =>
                    /\ DOMAIN users' = DOMAIN users \ {id}
                    /\ \A k \in DOMAIN users' : users'[k] = users[k]
        /\ d.code # StatusOK => d.body.userData = <<>> /\ users' = users

\* C31 as stated: every POST is answered 200 with Success exactly when the
\* repository operation succeeded, 404 with Error when a Read, Update or
\* Delete names an absent client, 409 when a Create names a held one, 400
\* for invalid XML, an unknown operation or an operation element that does
\* not decode; an answer other than 200 carries no UserData and leaves the
\* repository unchanged.
C31_StatusReflectsOutcome ==
    [][(Served /\ direct'.method = "POST") => PostOutcome(FALSE)]_vars

\* C31, amended: the same, a Read of an absent client being answered 404
\* unless the request found an action override set for its id.
C31_StatusReflectsOutcomeUnlessOverridden ==
    [][(Served /\ direct'.method = "POST") => PostOutcome(TRUE)]_vars

\* a KYCQuery for an absent client with no override was answered 404 with
\* an Error body and no UserData
C31_Witness ==
    /\ direct.method = "POST" /\ direct.req.root = "KYCQuery"
    /\ direct.req.clientId \notin DOMAIN users
    /\ direct.req.clientId \notin DOMAIN actions
    /\ direct.code = StatusNotFound /\ direct.body.status = "Error"
    /\ direct.body.userData = <<>>

\* the HEAD request of waitForSoapService, which has no body
HeadProbe == SoapRequest("", "", ZeroUserData)

\* bodies sent with another method: none, no XML, each of the operations
NonPostRequests ==
    {HeadProbe}
    \cup {SoapRequest(r, "a", UserData("b", 10, "", <<>>)) :
            r \in {NotXML, "PatchKYC", "KYCQuery", "CreateKYC", "UpdateKYC", "DeleteKYC"}}
    \cup {Unqualified(SoapRequest(r, "a", UserData("b", 10, "", <<>>))) :
            r \in {"KYCQuery", "DeleteKYC"}}

\* C32: whatever the store and the overrides, the SOAP endpoint answers a
\* request of a method other than POST with 405 and its fixed text, the
\* store being the one it was; the step in which the probe is answered
\* changes neither store nor overrides; a probe answered by the KYC service
\* is answered 405 and makes the wait return ready.
C32_NonPostIs405AndReady ==
    /\ [](\A method \in Methods \ {"POST"}, req \in NonPostRequests :
            soapHandler(users, actions, method, req)
              = HandlerResult(StatusMethodNotAllowed,
                              TextBody("SOAP requests must use POST method"), users))
    /\ [][(pc = "probeSoap" /\ pc' = "checkSoap")
            => users' = users /\ actions' = actions /\ lastWrite' = lastWrite]_vars
    /\ [][(/\ pc = "checkSoap" /\ pc' # pc
           /\ probeStatus = soapHandler(users, actions, "HEAD", HeadProbe).code)
            => probeStatus = StatusMethodNotAllowed /\ pc' = "poll" /\ soapReady']_vars

\* the first probe of the wait was answered by the KYC service
C32_Witness ==
    /\ pc = "checkSoap" /\ clock = 0 /\ ~soapReady
    /\ probeStatus = soapHandler(users, actions, "HEAD", HeadProbe).code

\* what repo.GetAction returns for id under the overrides acts
Override(acts, id) ==
    IF id \in DOMAIN acts THEN [action |-> acts[id], exists |-> TRUE]
    ELSE [action |-> "", exists |-> FALSE]

\* C33: every KYCQuery that decodes looks up the override of its own id, as
\* set at that moment; the override it found replaces its answer by the one
\* it names (Timeout 408, InternalError 500, NotFound 404 with an Error
\* body) and nothing else: a KYCQuery that found none, so every one that
\* looks after the override was cleared, and every other POST (a KYCQuery
\* whose element does not decode, and so names no id, included) is answered
\* and applied as without overrides; serving a request neither clears nor
\* changes an override, and setting or clearing one leaves the stored user
\* data as they are.
C33_OverrideOnlyChangesReads ==
    /\ [][(direct'.flight.on /\ ~direct.flight.on)
            => /\ direct'.flight.seen = Override(actions, direct'.flight.clientId)
               /\ users' = users /\ actions' = actions /\ lastWrite' = lastWrite]_vars
    /\ [][(Served /\ direct'.method = "POST")
            => LET d == direct'
                   req == d.req
                   seen == direct.flight.seen
                   plain == soapHandler(users, <<>>, "POST", req)
               IN  /\ actions' = actions
                   /\ (req.root = "KYCQuery" /\ req.space = KycNamespace)
                        => direct.flight.on /\ direct.flight.clientId = req.clientId
                   /\ IF req.root = "KYCQuery" /\ req.space = KycNamespace /\ seen.exists
                      THEN /\ users' = users
                           /\ d.body.userData = <<>>
                           /\ d.code = CASE seen.action = ActionTimeout
                                              -> StatusRequestTimeout
                                          [] seen.action = ActionInternalError
                                              -> StatusInternalServerError
                                          [] seen.action = ActionNotFound
                                              -> StatusNotFound
                      ELSE /\ d.code = plain.code /\ d.body = plain.body
                           /\ users' = plain.users]_vars
    /\ [][actions' # actions
            => users' = users /\ direct' = direct /\ lastWrite' = lastWrite]_vars

\* a KYCQuery for the held client "a" was answered 500 by the override set
\* for it; the record of "a" is still stored
C33_Witness ==
    /\ direct.method = "POST" /\ direct.req.root = "KYCQuery"
    /\ direct.req.clientId = "a"
    /\ "a" \in DOMAIN actions /\ actions["a"] = ActionInternalError
    /\ direct.code = StatusInternalServerError
    /\ "a" \in DOMAIN users /\ users["a"] = LoadedUsers["a"]

(***************************************************************************)
(* The repository under concurrent requests                                *)
(***************************************************************************)

\* goroutine p is between the Lock and the Unlock of a Create, Update or Delete
Writing(p) ==
    \/ worker[p].pc \in {"check", "store", "stored", "remove"}
    \/ worker[p].pc = "unlock" /\ worker[p].op \in WriteOps

\* goroutine p is about to return from its repository call
Returning(p) == worker[p].pc = "unlock"

\* C36: a goroutine that checks and writes holds the mutex alone, no other
\* goroutine being inside a repository call; of the Creates of an id at most
\* one stores its record while the id stays held; at its return a call that
\* succeeded finds the store as it left it and a call that failed finds the
\* condition it failed on still true; a Create fails exactly when it finds
\* the id held at its check; no Read and no listing returns a record whose
\* assignment was under way.
C36_RepositoryCallsAtomic ==
    /\ [](\A p \in Workers : Writing(p) =>
            /\ mu.writer = p /\ mu.readers = {}
            /\ \A q \in Workers \ {p} : worker[q].pc \in {"idle", "lock"})
    /\ [](\A p \in Workers : worker[p].pc \in {"read"} => p \in mu.readers /\ mu.writer = 0)
    /\ [](\A id \in ClientIds : created[id] <= 1)
    /\ [](\A p \in Workers : Returning(p) =>
            LET w == worker[p]
                id == w.arg.clientId
            IN  /\ (w.op \in {"Create", "Update"} /\ w.err = <<>>) =>
                      id \in DOMAIN users /\ users[id] = w.arg
                /\ (w.op = "Delete" /\ w.err = <<>>) => id \notin DOMAIN users
                /\ (w.op = "Create" /\ w.err # <<>>) =>
                      w.err = ErrAlreadyExists(id) /\ id \in DOMAIN users
                /\ (w.op \in {"Update", "Delete", "Read"} /\ w.err # <<>>) =>
                      w.err = ErrNotFound(id) /\ id \notin DOMAIN users
                /\ (w.op = "Read" /\ w.err = <<>>) =>
                      id \in DOMAIN users /\ w.seen = <<{users[id]}>>
                /\ w.op = "List" => w.seen = <<{users[k] : k \in DOMAIN users}>>)
    /\ [](\A p \in Workers : \A i \in DOMAIN worker[p].seen :
            \A r \in worker[p].seen[i] : r.status # "<torn>")
    /\ [][\A p \in Workers :
            (worker[p].pc = "check" /\ worker'[p].pc # "check" /\ worker[p].op = "Create")
              => (worker'[p].err # <<>> <=> worker[p].arg.clientId \in DOMAIN users)]_vars

\* two Creates of the absent id "b" run at the same time: one has stored its
\* record and still holds the mutex, the other waits in Lock
C36_Witness ==
    /\ worker[1].op = "Create" /\ worker[2].op = "Create"
    /\ worker[1].arg.clientId = "b" /\ worker[2].arg.clientId = "b"
    /\ worker[1].pc = "unlock" /\ worker[1].err = <<>>
    /\ worker[2].pc = "lock"
    /\ created["b"] = 1

====
